---- MODULE Spec2Model ----
(***************************************************************************)
(* State-machine model of src/main.py (RAGZ document search service):      *)
(* GlobalState persistence, DataManager document loading and vector        *)
(* collection set-up, SearchEngine BM25 build/load/extend, hybrid search,  *)
(* the run_indexing cycle, the HTTP start handlers and process restarts.   *)
(*                                                                         *)
(* Documents are identified by their id.  A BM25 corpus entry is the       *)
(* tokenization of one document, Tokenize(d).  A request handler           *)
(* (async def) runs atomically on the event loop; a background             *)
(* run_indexing task runs in a worker thread and is split in steps that    *)
(* interleave with handlers and with other tasks.                          *)
(***************************************************************************)
EXTENDS Integers, Sequences, FiniteSets, TLC

\* ---------------------------------------------------------------- bounds
MaxDocId == 2
MaxCycles == 2
MaxRemoteChanges == 1
MaxWorkers == 2

\* ------------------------------------------------------ program constants
state_schema_version == 1

DocIds == 1..MaxDocId
Workers == 1..MaxWorkers

VARIABLES
    disk,             \* STATE_FILE, DOCUMENTS_FILE, BM25_FILE, the Chroma collection
    dm,               \* DataManager fields
    se,               \* SearchEngine fields
    indexing_status,  \* global_state.indexing_status
    system_status,    \* global_state.system_status
    remote,           \* ids of the documents the Paperless API serves
    workers,          \* run_indexing tasks: position and arguments
    resp,             \* what the last step was, if a process start or a cycle end
    bm25_op,          \* the last operation of the last step on the BM25 index
    budget,           \* remaining cycles and remote changes
    call              \* a call of one function on its own: arguments and result

vars == <<disk, dm, se, indexing_status, system_status, remote, workers, resp,
          bm25_op, budget, call>>

\* ------------------------------------------------------------- helpers
Ids(docs) == {docs[i] : i \in DOMAIN docs}

Min(S) == CHOOSE x \in S : \A y \in S : x <= y

RECURSIVE SortedSeq(_)
SortedSeq(S) == IF S = {} THEN <<>> ELSE <<Min(S)>> \o SortedSeq(S \ {Min(S)})

RECURSIVE SelectSeqIn(_, _)
SelectSeqIn(docs, S) ==
    IF docs = <<>> THEN <<>>
    ELSE (IF Head(docs) \in S THEN <<Head(docs)>> ELSE <<>>) \o SelectSeqIn(Tail(docs), S)

\* word_tokenize(text.lower()) minus stop words, of the text of document d
Tokenize(d) == [tokens_of |-> d]

TokenizeAll(docs) == [i \in DOMAIN docs |-> Tokenize(docs[i])]

\* The program state a function of main.py reads and writes, with what it
\* returns (ret), whether it raised (exc) and the last thing done to the BM25
\* index since the step began: "none", "load" (_load_bm25), "build"
\* (_setup_bm25), "extend" (_add_new_documents_to_bm25) or "rebuild" (the
\* build initialize makes when the loaded corpus has the wrong length).
\* calls holds what has been called since the step began: "fetch"
\* (fetch_documents_from_api), "create_collection" (the collection deleted if
\* it was there and created anew), "build_bm25" (_setup_bm25 over all documents).
G == [disk |-> disk, dm |-> dm, se |-> se, ist |-> indexing_status,
      sys |-> system_status, exc |-> FALSE, ret |-> "go", bm25 |-> "none",
      calls |-> {}]

Commit(g) ==
    /\ disk' = g.disk
    /\ dm' = g.dm
    /\ se' = g.se
    /\ indexing_status' = g.ist
    /\ system_status' = g.sys
    /\ bm25_op' = g.bm25

\* What the environment does to the calls of one step: the Paperless API answers
\* or fails, the model files load or not, ChromaDB works, raises on every call
\* ("down"), raises on get_collection ("get") or raises on upsert ("upsert").
\* At most one of them fails in a step.
Env(fault) ==
    [api |-> fault # "api", models |-> fault # "models",
     chroma |-> IF fault \in {"down", "get", "upsert"} THEN fault ELSE "ok"]

Faults == {"none", "api", "models", "down", "get", "upsert"}

Envs == {Env(fault) : fault \in Faults}

\* --------------------------------------------------------- GlobalState
NoStateData ==
    [schema_version |-> 0, running |-> FALSE, message |-> "", up_to_date |-> FALSE,
     data_loaded |-> FALSE, index_ready |-> FALSE, chroma_ready |-> FALSE,
     bm25_ready |-> FALSE, indexed_document_ids |-> {}]

StateDict(g) ==
    [schema_version |-> state_schema_version,
     running |-> g.ist.running, message |-> g.ist.message,
     up_to_date |-> g.ist.up_to_date,
     data_loaded |-> g.sys.data_loaded, index_ready |-> g.sys.index_ready,
     chroma_ready |-> g.sys.chroma_ready, bm25_ready |-> g.sys.bm25_ready,
     indexed_document_ids |-> g.dm.indexed_document_ids]

\* GlobalState.save_state: open(STATE_FILE, 'w') and json.dump of the state dict
save_state(g) ==
    [g EXCEPT !.disk.state_file = [exists |-> TRUE, torn |-> FALSE, data |-> StateDict(g)]]

\* The file a crash leaves when it interrupts save_state between open(.., 'w'),
\* which truncates, and the end of json.dump.
TornStateFile == [exists |-> TRUE, torn |-> TRUE, data |-> NoStateData]

FreshIndexingStatus == [running |-> FALSE, message |-> "", up_to_date |-> FALSE]
FreshSystemStatus ==
    [data_loaded |-> FALSE, index_ready |-> FALSE, chroma_ready |-> FALSE, bm25_ready |-> FALSE]
FreshDM ==
    [documents |-> <<>>, indexed_document_ids |-> {}, new_document_ids |-> {},
     collection |-> FALSE, is_initialized |-> FALSE, chroma_initialized |-> FALSE,
     loaded_ids |-> {}]
FreshSE ==
    [documents |-> <<>>, collection |-> FALSE, tokenized_corpus |-> <<>>,
     is_initialized |-> FALSE, bm25_initialized |-> FALSE]

\* GlobalState.load_state on a fresh GlobalState(): ret is "true" when the load
\* succeeded.  dm.loaded_ids is global_state._indexed_document_ids.
load_state(g) ==
    LET f == g.disk.state_file IN
    IF ~f.exists THEN [g EXCEPT !.ret = "false"]
    ELSE IF f.torn THEN [g EXCEPT !.ret = "false"]   \* json.load raises, caught
    ELSE [g EXCEPT
            !.ist = [running |-> FALSE, message |-> f.data.message,
                     up_to_date |-> f.data.up_to_date],
            !.sys = [data_loaded |-> f.data.data_loaded, index_ready |-> f.data.index_ready,
                     chroma_ready |-> f.data.chroma_ready, bm25_ready |-> f.data.bm25_ready],
            !.dm.loaded_ids = f.data.indexed_document_ids,
            !.ret = "true"]

\* --------------------------------------------------------- DataManager
\* DataManager.initialize_models
initialize_models(g, env) ==
    IF env.models
    THEN save_state([g EXCEPT !.dm.is_initialized = TRUE])
    ELSE [g EXCEPT !.dm.is_initialized = FALSE]

\* The contents a document can have at the Paperless API
Contents == {"a", "b"}

\* DataManager._compute_document_hash: sha256 of the content, one hash per content
_compute_document_hash(content) == <<"sha256", content>>

\* DataManager.fetch_documents_from_api: the processed documents, in API order
fetch_documents_from_api == SortedSeq(remote)

\* DataManager.save_documents
save_documents(g) ==
    [g EXCEPT !.disk.documents_file = [exists |-> TRUE, docs |-> g.dm.documents]]

\* DataManager._check_for_new_documents: ret "new" holds the new documents in
\* dm.new_document_ids order of the API; a failed fetch returns [] before the clear.
_check_for_new_documents(g, env) ==
    IF ~env.api THEN [g EXCEPT !.calls = @ \cup {"fetch"}]
    ELSE LET fresh == remote \ g.dm.indexed_document_ids IN
         [g EXCEPT !.dm.new_document_ids = fresh,
                   !.dm.indexed_document_ids = @ \cup fresh,
                   !.calls = @ \cup {"fetch"}]

\* The documents _check_for_new_documents returns in state g
NewDocs(g, env) ==
    IF ~env.api THEN <<>>
    ELSE SelectSeqIn(fetch_documents_from_api, remote \ g.dm.indexed_document_ids)

\* DataManager.load_documents.  exc is TRUE when the call raises.
load_documents(g, force_refresh, check_new, env) ==
    IF g.disk.documents_file.exists /\ ~force_refresh
    THEN
        LET local_documents == g.disk.documents_file.docs
            g1 == [g EXCEPT
                     !.dm.indexed_document_ids =
                         IF @ = {} THEN Ids(local_documents) ELSE @,
                     !.dm.documents = local_documents]
            new_docs == NewDocs(g1, env)
            g2 == IF check_new
                  THEN LET c == _check_for_new_documents(g1, env) IN
                       IF new_docs # <<>>
                       THEN save_documents([c EXCEPT !.dm.documents = @ \o new_docs])
                       ELSE c
                  ELSE [g1 EXCEPT !.dm.new_document_ids = {}]
        IN save_state([g2 EXCEPT !.sys.data_loaded = TRUE])
    ELSE
        IF ~env.api THEN [g EXCEPT !.exc = TRUE, !.calls = @ \cup {"fetch"}]
        ELSE
            LET docs == fetch_documents_from_api
                g1 == [g EXCEPT !.dm.documents = docs,
                                !.dm.indexed_document_ids = Ids(docs),
                                !.dm.new_document_ids = Ids(docs),
                                !.calls = @ \cup {"fetch"}]
            IN save_state([save_documents(g1) EXCEPT !.sys.data_loaded = TRUE])

\* DataManager._add_documents_to_chroma: collection.upsert of every document
_add_documents_to_chroma(collection, documents) ==
    [exists |-> TRUE, ids |-> collection.ids \cup Ids(documents)]

\* setup_chroma_collection, the outer except: clause (re-raises)
ChromaSetupFail(g) ==
    save_state([g EXCEPT !.sys.chroma_ready = FALSE,
                         !.dm.chroma_initialized = FALSE,
                         !.exc = TRUE])

ChromaSetupDone(g, collection) ==
    save_state([g EXCEPT !.disk.chroma = collection,
                         !.dm.collection = TRUE,
                         !.dm.chroma_initialized = TRUE,
                         !.sys.chroma_ready = TRUE,
                         !.ret = "coll"])

\* setup_chroma_collection, lines 630-641: upsert all documents into the
\* collection just created; g2 is the state once the documents are there
ChromaUpsertAll(g2, env) ==
    IF g2.exc \/ (env.chroma = "upsert" /\ g2.dm.documents # <<>>)
    THEN ChromaSetupFail(g2)
    ELSE ChromaSetupDone(g2, _add_documents_to_chroma(g2.disk.chroma, g2.dm.documents))

\* setup_chroma_collection, lines 616-641: delete an existing collection, create
\* it anew, load the documents if there are none, upsert all of them.
ChromaRecreate(g, env) ==
    ChromaUpsertAll(
        IF g.dm.documents = <<>>
        THEN load_documents([g EXCEPT !.disk.chroma = [exists |-> TRUE, ids |-> {}],
                                      !.calls = @ \cup {"create_collection"}],
                            FALSE, FALSE, env)
        ELSE [g EXCEPT !.disk.chroma = [exists |-> TRUE, ids |-> {}],
                       !.calls = @ \cup {"create_collection"}],
        env)

\* setup_chroma_collection once the models are there (g0).  The existing
\* collection is kept and the new documents are upserted unless it cannot be
\* got, is empty, or the upsert raises: then it is created anew.
ChromaSetup(g0, force_update, env) ==
    LET new_docs == SelectSeqIn(g0.dm.documents, g0.dm.new_document_ids)
        recreate == \/ ~g0.disk.chroma.exists
                    \/ force_update
                    \/ env.chroma = "get"
                    \/ g0.disk.chroma.ids = {} /\ g0.dm.documents # <<>>
                    \/ new_docs # <<>> /\ env.chroma = "upsert"
    IN  IF ~g0.dm.is_initialized THEN [g0 EXCEPT !.ret = "none"]
        ELSE IF env.chroma = "down" THEN ChromaSetupFail(g0)
        ELSE IF recreate THEN ChromaRecreate(g0, env)
        ELSE ChromaSetupDone(g0, _add_documents_to_chroma(g0.disk.chroma, new_docs))

\* DataManager.setup_chroma_collection.  ret is "none" when it returns None,
\* "coll" when it returns the collection; exc when it raises.
setup_chroma_collection(g, force_update, env) ==
    ChromaSetup(IF ~g.dm.is_initialized THEN initialize_models(g, env) ELSE g,
                force_update, env)

\* --------------------------------------------------------- SearchEngine
\* SearchEngine.validate_state.  ret is "true" when valid.
validate_state(g, env) ==
    LET valid ==
            /\ g.se.documents # <<>>
            /\ g.se.collection
            /\ env.chroma # "down"
            /\ g.disk.chroma.exists
            /\ g.disk.chroma.ids # {}
            /\ g.se.tokenized_corpus # <<>>
            /\ Len(g.se.tokenized_corpus) = Len(g.se.documents)
    IN  IF valid
        THEN [g EXCEPT !.se.is_initialized = TRUE, !.se.bm25_initialized = TRUE,
                       !.sys.index_ready = TRUE, !.sys.bm25_ready = TRUE,
                       !.ret = "true"]
        ELSE [g EXCEPT !.ret = "false"]

\* SearchEngine._save_bm25
_save_bm25(g) ==
    [g EXCEPT !.disk.bm25_file = [exists |-> TRUE, corpus |-> g.se.tokenized_corpus]]

\* SearchEngine._setup_bm25: build over all of self.documents
_setup_bm25(g) ==
    IF g.se.documents = <<>>
    THEN [g EXCEPT !.se.bm25_initialized = FALSE, !.sys.bm25_ready = FALSE]
    ELSE _save_bm25([g EXCEPT !.se.tokenized_corpus = TokenizeAll(g.se.documents),
                              !.se.bm25_initialized = TRUE,
                              !.sys.bm25_ready = TRUE,
                              !.bm25 = "build",
                              !.calls = @ \cup {"build_bm25"}])

\* SearchEngine._load_bm25.  ret is "true" when it returns True.
_load_bm25(g) ==
    LET corpus == g.disk.bm25_file.corpus IN
    IF corpus = <<>>
    THEN [g EXCEPT !.se.tokenized_corpus = corpus,
                   !.se.bm25_initialized = FALSE, !.sys.bm25_ready = FALSE,
                   !.ret = "false", !.bm25 = "load"]
    ELSE [g EXCEPT !.se.tokenized_corpus = corpus,
                   !.se.bm25_initialized = TRUE, !.sys.bm25_ready = TRUE,
                   !.ret = "true", !.bm25 = "load"]

\* SearchEngine._add_new_documents_to_bm25: extend the corpus by the new documents
_add_new_documents_to_bm25(g) ==
    IF g.se.tokenized_corpus = <<>> THEN _setup_bm25(g)
    ELSE LET added == TokenizeAll(SortedSeq(g.dm.new_document_ids \cap Ids(g.se.documents)))
         IN  IF added # <<>>
             THEN _save_bm25([g EXCEPT !.se.tokenized_corpus = @ \o added,
                                       !.se.bm25_initialized = TRUE,
                                       !.sys.bm25_ready = TRUE,
                                       !.bm25 = "extend"])
             ELSE [g EXCEPT !.bm25 = "extend"]

\* SearchEngine.initialize, the except: clause
InitExcept(g) ==
    save_state([g EXCEPT !.se.is_initialized = FALSE, !.sys.index_ready = FALSE,
                         !.exc = FALSE, !.ret = "false"])

\* SearchEngine.initialize, lines 763-772: g1 is the state once the documents
\* of the data manager are there
InitTakeDocuments(g1) ==
    IF g1.exc THEN InitExcept(g1)
    ELSE [g1 EXCEPT !.se.documents = g1.dm.documents,
                    !.ret = IF g1.dm.documents = <<>> THEN "false" ELSE "go",
                    !.bm25 = "none"]

init_docs(g, env) ==
    InitTakeDocuments(IF g.dm.documents = <<>>
                      THEN load_documents(g, FALSE, FALSE, env)
                      ELSE g)

\* SearchEngine.initialize, lines 774-778: c is the state setup_chroma_collection left
InitTakeCollection(c) ==
    IF c.exc THEN InitExcept(c)
    ELSE [c EXCEPT !.se.collection = (c.ret = "coll"), !.ret = "go"]

init_chroma(g, force_update, env) ==
    IF ~g.dm.chroma_initialized \/ force_update
    THEN InitTakeCollection(setup_chroma_collection(g, force_update, env))
    ELSE [g EXCEPT !.se.collection = g.dm.collection, !.ret = "go"]

\* SearchEngine.initialize, lines 788-808: l is the state _load_bm25 left
InitAfterLoad(l, have_new_docs) ==
    IF l.ret # "true" THEN _setup_bm25(l)
    ELSE IF Len(l.se.tokenized_corpus) # Len(l.se.documents)
    THEN [_setup_bm25(_setup_bm25(l)) EXCEPT !.bm25 = "rebuild"]
    ELSE IF have_new_docs THEN _add_new_documents_to_bm25(l)
    ELSE l

\* SearchEngine.initialize, lines 780-808: load, extend or build the BM25 index
init_bm25_index(g, force_update) ==
    IF g.disk.bm25_file.exists /\ ~force_update
    THEN InitAfterLoad(_load_bm25(g), g.dm.new_document_ids # {})
    ELSE _setup_bm25(g)

\* SearchEngine.initialize, lines 810-822: v is the state validate_state left
InitValidated(v) ==
    IF v.ret = "true"
    THEN save_state([v EXCEPT !.se.is_initialized = TRUE, !.sys.index_ready = TRUE])
    ELSE v

\* SearchEngine.initialize, lines 780-822: BM25, then validation
init_bm25(g, force_update, env) ==
    InitValidated(validate_state(init_bm25_index(g, force_update), env))

InitGoOn(b, force_update, env) ==
    IF b.ret # "go" THEN b ELSE init_bm25(b, force_update, env)

\* SearchEngine.initialize, lines 774-822: all that follows the documents
init_indexes(g, force_update, env) ==
    InitGoOn(init_chroma(g, force_update, env), force_update, env)

InitGoOnIndexes(a, force_update, env) ==
    IF a.ret # "go" THEN a ELSE init_indexes(a, force_update, env)

\* SearchEngine.initialize as one call.  ret is "true" or "false".
initialize(g, force_update, env) ==
    InitGoOnIndexes(init_docs(g, env), force_update, env)

\* ------------------------------------------------------------- search
\* A query is the set of documents whose tokens it matches: the BM25 score of
\* corpus entry Tokenize(d) is > 0 exactly when d is in the query.
Queries == SUBSET DocIds

\* SearchEngine.keyword_search: status "raised" or "ok" with the documents at
\* the positions of positive score
keyword_search(g, query) ==
    IF ~g.se.is_initialized THEN [status |-> "raised", ids |-> {}]
    ELSE IF ~g.se.bm25_initialized \/ g.se.tokenized_corpus = <<>>
    THEN [status |-> "raised", ids |-> {}]
    ELSE IF Len(g.se.tokenized_corpus) # Len(g.se.documents)
    THEN [status |-> "raised", ids |-> {}]
    ELSE [status |-> "ok",
          ids |-> {g.se.documents[i] : i \in {j \in DOMAIN g.se.documents :
                                     g.se.tokenized_corpus[j].tokens_of \in query}}]

\* SearchEngine.semantic_search: "raised" when it raises, "failed" when the
\* query raised and [] is returned, "ok" with the neighbours found in documents
semantic_search(g, query, env) ==
    IF ~g.se.is_initialized THEN [status |-> "raised", ids |-> {}]
    ELSE IF ~g.se.collection THEN [status |-> "raised", ids |-> {}]
    ELSE IF env.chroma = "down" \/ ~g.disk.chroma.exists
    THEN [status |-> "failed", ids |-> {}]
    ELSE [status |-> "ok", ids |-> g.disk.chroma.ids \cap Ids(g.se.documents)]

\* One result of a search: which of the two weighted terms its score holds,
\* or raw when the score is the unweighted score of a single-method fallback.
Result(id, lexical, semantic, raw) ==
    [id |-> id, lexical |-> lexical, semantic |-> semantic, raw |-> raw]

SearchOut(g, status, results, kw, sem, path) ==
    [g |-> [g EXCEPT !.exc = FALSE], status |-> status, results |-> results,
     kw |-> kw, sem |-> sem, path |-> path]

\* SearchEngine.hybrid_search, lines 1127-1172: the fusion of the keyword
\* results k and the semantic results s
HybridFuse(g, k, s) ==
    IF k.ids = {} /\ s.ids = {}
    THEN SearchOut(g, "error", {}, k.status, s.status, "hybrid")
    ELSE SearchOut(g, "ok",
             {Result(d, d \in k.ids, d \in s.ids, FALSE) : d \in k.ids \cup s.ids},
             k.status, s.status, "hybrid")

\* SearchEngine.hybrid_search, lines 1115-1172: both methods, then the fusion
HybridBoth(g, query, env) ==
    HybridFuse(g, keyword_search(g, query), semantic_search(g, query, env))

\* hybrid_search, line 1105: return self.semantic_search(query, top_k)
SemanticOnly(g, s) ==
    IF s.status = "raised"
    THEN SearchOut(g, "error", {}, "unusable", s.status, "semantic_only")
    ELSE SearchOut(g, "ok", {Result(d, FALSE, TRUE, TRUE) : d \in s.ids},
                   "unusable", s.status, "semantic_only")

\* hybrid_search, line 1113: return self.keyword_search(query, top_k)
KeywordOnly(c, k) ==
    IF c.exc \/ k.status = "raised"
    THEN SearchOut(c, "error", {}, k.status, "unusable", "keyword_only")
    ELSE SearchOut(c, "ok", {Result(d, TRUE, FALSE, TRUE) : d \in k.ids},
                   k.status, "unusable", "keyword_only")

\* hybrid_search, lines 1107-1113: c is the state setup_chroma_collection left;
\* self.collection is not assigned
KeywordFallback(c, query) == KeywordOnly(c, keyword_search(c, query))

\* hybrid_search, lines 1101-1172, g2 the state after the attempt to build BM25
HybridReady(g2, query, env) ==
    IF ~g2.se.bm25_initialized
    THEN SemanticOnly(g2, semantic_search(g2, query, env))
    ELSE IF ~g2.se.collection
    THEN KeywordFallback(setup_chroma_collection(g2, FALSE, env), query)
    ELSE HybridBoth(g2, query, env)

\* hybrid_search, lines 1092-1172, g1 the state after the attempt to initialize
HybridInitialized(g1, query, env) ==
    IF ~g1.se.is_initialized
    THEN SearchOut(g1, "error", {}, "skipped", "skipped", "none")
    ELSE HybridReady(IF ~g1.se.bm25_initialized THEN _setup_bm25(g1) ELSE g1, query, env)

\* SearchEngine.hybrid_search
hybrid_search(g, query, env) ==
    HybridInitialized(IF ~g.se.is_initialized THEN initialize(g, FALSE, env) ELSE g,
                      query, env)

\* search, lines 1286-1360, g1 the state after initialize when it was tried
SearchInitialized(g1, tried, query, env) ==
    IF tried /\ g1.ret # "true"
    THEN SearchOut(g1, "error", {}, "skipped", "skipped", "none")
    ELSE hybrid_search(g1, query, env)

\* SearchEngine.search without filters: the reranked, formatted results of
\* hybrid_search, [] when there are none, HTTP 500 when anything raised
search(g, query, env) ==
    SearchInitialized(IF ~g.se.is_initialized THEN initialize(g, FALSE, env) ELSE g,
                      ~g.se.is_initialized, query, env)

\* get_search_engine, lines 1483-1505: the second attempt
EngineInitialize(g1, env) ==
    IF ~g1.se.is_initialized THEN initialize(g1, FALSE, env) ELSE g1

\* get_search_engine, the dependency of /search
get_search_engine(g, env) ==
    EngineInitialize(
        IF g.se.is_initialized /\ (~g.se.bm25_initialized \/ ~g.se.collection)
        THEN initialize(g, FALSE, env)
        ELSE g,
        env)

\* search_documents with the engine of get_search_engine in state e: status
\* "unavailable" is HTTP 503
SearchWith(e, query, env) ==
    IF ~e.se.is_initialized
    THEN SearchOut(e, "unavailable", {}, "skipped", "skipped", "none")
    ELSE search(e, query, env)

\* POST /search
search_documents(g, query, env) == SearchWith(get_search_engine(g, env), query, env)

\* --------------------------------------------------------- run_indexing
IdleWorker ==
    [pc |-> "idle", force |-> FALSE, check_new |-> FALSE, fg |-> FALSE,
     iforce |-> FALSE, found |-> FALSE]

\* A call run_indexing(force, check_new), in the foreground (fg) or as a
\* background task
Task(force, check_new, fg) ==
    [pc |-> "queued", force |-> force, check_new |-> check_new, fg |-> fg,
     iforce |-> FALSE, found |-> FALSE]

SetMessage(g, m) == [g EXCEPT !.ist.message = m]

\* run_indexing, lines 1369-1373: g1 is the state after line 1368
RiModels(g1, env) ==
    IF ~g1.dm.is_initialized
    THEN initialize_models(save_state(SetMessage(g1, "Initializing models")), env)
    ELSE g1

\* run_indexing, lines 1366-1373
ri_begin(g, env) ==
    RiModels(save_state([g EXCEPT !.ist.running = TRUE,
                                  !.ist.message = "Indexierung gestartet"]), env)

\* An except: clause that records the error and leaves running as it is
ri_except_still_running(g) ==
    save_state([g EXCEPT !.ist.message = "Fehler bei der Indexierung",
                         !.exc = FALSE, !.ret = "error"])

\* run_indexing, the except: clause, lines 1441-1446
ri_except(g) ==
    save_state([g EXCEPT !.ist.running = FALSE,
                         !.ist.message = "Fehler bei der Indexierung",
                         !.exc = FALSE, !.ret = "error"])

\* A run_indexing that checks for new documents whatever it was asked
ri_documents_always_check(g, force_update, check_new, env) ==
    load_documents(save_state(SetMessage(g, "Pruefe auf neue Dokumente")),
                   FALSE, TRUE, env)

\* run_indexing, lines 1376-1395: exc when load_documents raised
ri_documents(g, force_update, check_new, env) ==
    IF force_update
    THEN load_documents(save_state(SetMessage(g, "Vollstaendige Neuindexierung")),
                        TRUE, FALSE, env)
    ELSE IF g.sys.data_loaded = FALSE \/ check_new
    THEN load_documents(save_state(SetMessage(g, "Pruefe auf neue Dokumente")),
                        FALSE, TRUE, env)
    ELSE load_documents(save_state(SetMessage(g, "Lade vorhandene Dokumente")),
                        FALSE, FALSE, env)

\* run_indexing, lines 1366-1395
ri_load(g, force_update, check_new, env) ==
    ri_documents(ri_begin(g, env), force_update, check_new, env)

\* run_indexing, lines 1410 and 1419: the message once initialize has returned
AfterInitialize(g, found) ==
    [SetMessage(g, IF found THEN "Indexierung abgeschlossen"
                   ELSE "Keine neuen Dokumente gefunden") EXCEPT !.ret = "validate"]

\* run_indexing, lines 1397-1419: i is the state init_docs left
RiAfterDocs(i, found) == IF i.ret = "go" THEN i ELSE AfterInitialize(i, found)

\* A run_indexing that calls SearchEngine.initialize in every cycle
ri_index_always(g, force_update, env) ==
    RiAfterDocs(init_docs(save_state(SetMessage(g, "Indexiere neue Dokumente")), env),
                g.dm.new_document_ids # {})

\* run_indexing, lines 1397-1419, up to the first part of initialize: ret "go"
\* when initialize goes on to the collection, "validate" when it has returned
ri_index(g, force_update, env) ==
    LET found == g.dm.new_document_ids # {} IN
    IF found \/ (g.sys.data_loaded /\ ~g.se.is_initialized)
    THEN RiAfterDocs(init_docs(save_state(SetMessage(g,
                         IF found THEN "Indexiere neue Dokumente"
                         ELSE "Lade vorhandene Indizes")), env), found)
    ELSE AfterInitialize(g, found)

\* run_indexing, lines 1435-1439
ri_finish(g) ==
    save_state([g EXCEPT !.ist.running = FALSE, !.ist.up_to_date = TRUE,
                         !.ret = "done"])

\* run_indexing, lines 1430-1439: the message after the forced rebuild
AfterRebuild(g) ==
    ri_finish(SetMessage(g, IF g.se.is_initialized THEN "Index rebuilt successfully"
                            ELSE "Failed to rebuild index"))

\* run_indexing, lines 1421-1425: v is the state validate_state left, if called
RiValidated(v, was_initialized) ==
    IF ~was_initialized \/ v.ret = "false"
    THEN [save_state(SetMessage(v, "Validation failed, rebuilding index"))
             EXCEPT !.ret = "rebuild"]
    ELSE ri_finish(v)

\* run_indexing, lines 1421-1439: ret "rebuild" when the validation failed,
\* "done" when the cycle ended
ri_validate(g, env) ==
    RiValidated(IF g.se.is_initialized THEN validate_state(g, env) ELSE g,
                g.se.is_initialized)

\* run_indexing, lines 1427-1439: the forced rebuild and the end of the cycle
ri_rebuild(g, env) == AfterRebuild(initialize(g, TRUE, env))

\* ------------------------------------------------------ process start-up
\* lock_file is an indexing lock token in the data directory, stale when it is
\* older than the ten minutes of the specification.  No code of the program
\* creates, reads or removes such a file: it is there when something else put it.
NoLock == [exists |-> FALSE, stale |-> FALSE]
YoungLock == [exists |-> TRUE, stale |-> FALSE]
StaleLock == [exists |-> TRUE, stale |-> TRUE]

BlankDisk(state_file) ==
    [state_file |-> state_file,
     documents_file |-> [exists |-> FALSE, docs |-> <<>>],
     bm25_file |-> [exists |-> FALSE, corpus |-> <<>>],
     chroma |-> [exists |-> FALSE, ids |-> {}],
     lock_file |-> NoLock]

NoStateFile == [exists |-> FALSE, torn |-> FALSE, data |-> NoStateData]

\* A state file another version of the program left: its schema_version is not
\* the current one, and it was written while a cycle was running.
OtherVersionStateFile ==
    [exists |-> TRUE, torn |-> FALSE,
     data |-> [NoStateData EXCEPT !.schema_version = state_schema_version + 1,
                                  !.running = TRUE,
                                  !.message = "Indexierung gestartet"]]

\* startup_event, the except: clause, lines 1689-1707
StartupExcept(g) ==
    [save_state(SetMessage(g, "Error during startup")) EXCEPT !.ret = "nopost"]

\* startup_event, lines 1620-1646: l is the state _load_bm25 left
StartupBm25(l, env) ==
    validate_state(
        IF l.se.tokenized_corpus # <<>>
           /\ Len(l.se.tokenized_corpus) # Len(l.dm.documents)
        THEN l
        ELSE [l EXCEPT !.se.is_initialized = TRUE, !.sys.index_ready = TRUE],
        env)

\* startup_event, lines 1601-1646: load the existing collection and BM25 index
StartupLoadIndexes(g, env) ==
    StartupBm25(
        _load_bm25(IF env.chroma = "get" THEN g
                   ELSE [g EXCEPT !.dm.collection = TRUE, !.dm.chroma_initialized = TRUE,
                                  !.sys.chroma_ready = TRUE, !.se.collection = TRUE]),
        env)

\* A new process over the files of d: GlobalState() and its fields
NewProcess(d) ==
    [disk |-> d, dm |-> FreshDM, se |-> FreshSE,
     ist |-> FreshIndexingStatus, sys |-> FreshSystemStatus,
     exc |-> FALSE, ret |-> "go", bm25 |-> "none", calls |-> {}]

\* startup_event, lines 1565-1598: the documents of DOCUMENTS_FILE
StartupDocuments(g1) ==
    IF ~g1.sys.data_loaded
    THEN [g1 EXCEPT !.dm.documents = g1.disk.documents_file.docs,
                    !.sys.data_loaded = TRUE,
                    !.dm.indexed_document_ids = Ids(g1.disk.documents_file.docs),
                    !.se.documents = g1.disk.documents_file.docs]
    ELSE [g1 EXCEPT !.se.documents = g1.dm.documents]

\* startup_event, lines 1655-1673: ret is "post" when post_startup_init is registered
StartupDecide(g4) ==
    [save_state(g4) EXCEPT !.ret =
        IF ~g4.se.is_initialized \/ ~g4.se.bm25_initialized \/ ~g4.dm.chroma_initialized
        THEN "post" ELSE "nopost"]

\* startup_event, lines 1600-1673
StartupIndexes(g3, env) ==
    StartupDecide(IF g3.dm.documents # <<>> /\ g3.dm.is_initialized
                     /\ g3.disk.chroma.exists /\ g3.disk.bm25_file.exists
                  THEN StartupLoadIndexes(g3, env)
                  ELSE g3)

\* startup_event, lines 1552-1685: g1 is the state initialize_models left
StartupLoad(g1, env) ==
    IF g1.dm.is_initialized /\ env.chroma = "down" THEN StartupExcept(g1)
    ELSE IF g1.disk.documents_file.exists
    THEN StartupIndexes(StartupDocuments(g1), env)
    ELSE [g1 EXCEPT !.ret = "nopost"]

\* startup_event after its load_state call returned l
startup_event(l, env) ==
    StartupLoad(initialize_models([l EXCEPT !.dm.indexed_document_ids = l.dm.loaded_ids],
                                  env), env)

\* A process start: load_state, then startup_event; loaded is what load_state
\* returned, "absent" when it returned False for want of a state file
Boot(l, env) ==
    [g |-> startup_event(l, env),
     loaded |-> IF l.disk.state_file.exists THEN l.ret ELSE "absent"]

\* The run_indexing call of post_startup_init, when startup_event registered it
StartupTasks(post) ==
    [w \in Workers |-> IF w = 1 /\ post THEN Task(FALSE, FALSE, TRUE) ELSE IdleWorker]

\* What the last step was when it started the process ("startup": "true" when
\* load_state succeeded, "false" when it failed, "absent" without a state
\* file) or ended a run_indexing call ("cycle": "done" or "error")
NoResp == [op |-> "none", status |-> ""]

\* No function is called on its own while the program runs
NoCall == [op |-> "none"]

Respond(op, status) == resp' = [op |-> op, status |-> status]

InitProcess(b) ==
    /\ disk = b.g.disk /\ dm = b.g.dm /\ se = b.g.se
    /\ indexing_status = b.g.ist /\ system_status = b.g.sys
    /\ bm25_op = b.g.bm25
    /\ workers = StartupTasks(b.g.ret = "post")
    /\ resp = [op |-> "startup", status |-> b.loaded]

Init ==
    /\ \E env \in Envs, f \in {NoStateFile, OtherVersionStateFile} :
           InitProcess(Boot(load_state(NewProcess(BlankDisk(f))), env))
    /\ remote = {1}
    /\ budget = [cycles |-> MaxCycles, remote |-> MaxRemoteChanges]
    /\ call = NoCall

\* ------------------------------------------------------------- actions
FgBusy == \E w \in Workers : workers[w].fg /\ workers[w].pc # "idle"

FreeWorker == CHOOSE w \in Workers : workers[w].pc = "idle"

CanSchedule == budget.cycles > 0 /\ \E w \in Workers : workers[w].pc = "idle"

Schedule(force, fg) ==
    /\ workers' = [workers EXCEPT ![FreeWorker] = Task(force, FALSE, fg)]
    /\ budget' = [budget EXCEPT !.cycles = @ - 1]

\* The faults a handler can meet: it loads the models only when they are not
\* loaded, fetches only when it loads documents, and a search on set-up
\* indexes only queries the collection.
StartFaults == IF dm.is_initialized THEN {"none"} ELSE {"none", "models"}

InitializeFaults(force) ==
    StartFaults \cup (IF ~system_status.data_loaded \/ force THEN {"api"} ELSE {})

SearchFaults ==
    IF se.is_initialized /\ se.bm25_initialized /\ se.collection
    THEN {"none", "down"} ELSE Faults

\* run_indexing calls ChromaDB only from SearchEngine.initialize on
LoadFaults == StartFaults \cup {"api"}

IndexFaults == IF dm.documents = <<>> THEN {"none", "api"} ELSE {"none"}

ValidateFaults == {"none", "down"}

\* A start handler that never looks at indexing_status.running
AlreadyRunningNever(g) == FALSE

\* start_indexing line 1822, initialize_system line 1854
AlreadyRunning(g) == g.ist.running

\* What a start handler returns: the state it leaves, the status of its
\* response and the run_indexing call it made ("bg": added to the background
\* tasks, "fg": called before the response, "none")
HandlerOut(g, status, task) ==
    [g |-> [g EXCEPT !.exc = FALSE], status |-> status, task |-> task]

\* POST /indexing/start
start_indexing(g, force, background, env) ==
    IF AlreadyRunning(g)
    THEN HandlerOut(g, "running", "none")
    ELSE LET g1 == IF ~g.dm.is_initialized THEN initialize_models(g, env) ELSE g IN
         IF background THEN HandlerOut(g1, "started", "bg")
         ELSE HandlerOut(g1, "completed", "fg")

\* POST /initialize
initialize_system(g, force, background, env) ==
    IF AlreadyRunning(g)
    THEN HandlerOut(g, "running", "none")
    ELSE LET g1 == IF ~g.dm.is_initialized THEN initialize_models(g, env) ELSE g
             g2 == IF ~g1.sys.data_loaded \/ force
                   THEN load_documents(g1, force, FALSE, env)
                   ELSE g1
         IN  IF g2.exc THEN HandlerOut(g2, "error", "none")
             ELSE IF background THEN HandlerOut(g2, "initializing", "bg")
             ELSE HandlerOut(g2, "initialized", "fg")

\* A start handler runs and its run_indexing call, if any, is scheduled
StartRequest(out, force) ==
    /\ ~FgBusy
    /\ Commit(out.g)
    /\ IF out.task = "none" THEN UNCHANGED <<workers, budget>>
       ELSE CanSchedule /\ Schedule(force, out.task = "fg")
    /\ resp' = NoResp
    /\ UNCHANGED <<remote, call>>

\* POST /search
SearchRequest(query, env) ==
    /\ ~FgBusy
    /\ Commit(search_documents(G, query, env).g)
    /\ resp' = NoResp
    /\ UNCHANGED <<remote, workers, budget, call>>

\* The end of a run_indexing call of worker w: the calls still running, in the
\* order they were made, then the free workers
CycleEnd(w, status) ==
    /\ workers' = [v \in Workers |->
                      IF v < w THEN workers[v]
                      ELSE IF v + 1 \in Workers THEN workers[v + 1]
                      ELSE IdleWorker]
    /\ Respond("cycle", status)

Goto(w, pc) ==
    /\ workers' = [workers EXCEPT ![w].pc = pc]
    /\ resp' = NoResp

LoadDone(w, g) ==
    IF g.exc
    THEN Commit(ri_except(g)) /\ CycleEnd(w, "error")
    ELSE Commit(g) /\ Goto(w, "index")

\* The task starts: run_indexing up to the loaded documents
CycleLoad(w) ==
    /\ workers[w].pc = "queued"
    /\ \E fault \in LoadFaults :
           LoadDone(w, ri_load(G, workers[w].force, workers[w].check_new, Env(fault)))
    /\ UNCHANGED <<remote, budget, call>>

IndexDone(w, g, found) ==
    /\ Commit(g)
    /\ workers' = [workers EXCEPT
            ![w].pc = IF g.ret = "go" THEN "init" ELSE "validate",
            ![w].found = found,
            ![w].iforce = found /\ workers[w].force]
    /\ resp' = NoResp

\* run_indexing up to the documents SearchEngine.initialize takes
CycleIndex(w) ==
    /\ workers[w].pc = "index"
    /\ \E fault \in IndexFaults :
           IndexDone(w, ri_index(G, workers[w].force, Env(fault)),
                     dm.new_document_ids # {})
    /\ UNCHANGED <<remote, budget, call>>

\* The collection and the BM25 index of SearchEngine.initialize
CycleInit(w) ==
    /\ workers[w].pc = "init"
    /\ \E fault \in Faults :
        Commit(AfterInitialize(init_indexes(G, workers[w].iforce, Env(fault)),
                               workers[w].found))
    /\ Goto(w, "validate")
    /\ UNCHANGED <<remote, budget, call>>

ValidateDone(v) ==
    IF v.ret = "rebuild"
    THEN \E fault \in Faults : Commit(ri_rebuild(v, Env(fault)))
    ELSE Commit(v)

\* Validation and, when it failed, the forced rebuild; then the cycle ends
CycleValidate(w) ==
    /\ workers[w].pc = "validate"
    /\ \E fault \in ValidateFaults : ValidateDone(ri_validate(G, Env(fault)))
    /\ CycleEnd(w, "done")
    /\ UNCHANGED <<remote, budget, call>>

\* The documents at the Paperless API change
RemoteChange ==
    /\ budget.remote > 0
    /\ \E r \in SUBSET DocIds : r # remote /\ remote' = r
    /\ budget' = [budget EXCEPT !.remote = @ - 1]
    /\ resp' = NoResp
    /\ bm25_op' = "none"
    /\ UNCHANGED <<disk, dm, se, indexing_status, system_status, workers, call>>

CycleActive == \E w \in Workers : workers[w].pc \notin {"idle", "queued"}

RestartProcess(b) ==
    /\ Commit(b.g)
    /\ workers' = StartupTasks(b.g.ret = "post")
    /\ Respond("startup", b.loaded)

\* The process dies and is started again: startup_event on a new process.  A
\* crash while a cycle runs may have interrupted a save_state of that cycle.
Restart(tear, env) ==
    /\ budget.cycles > 0
    /\ tear => CycleActive
    /\ RestartProcess(Boot(load_state(NewProcess(
           IF tear THEN [disk EXCEPT !.state_file = TornStateFile] ELSE disk)), env))
    /\ budget' = [budget EXCEPT !.cycles = @ - 1]
    /\ UNCHANGED <<remote, call>>

\* The files a crash leaves when it ends load_documents between save_documents
\* (line 494, 513 or 528) and save_state (line 502, 520 or 535): b is the state
\* load_documents was called in, l the state it would have returned in.
\* DOCUMENTS_FILE is written; the state file is the one run_indexing saved
\* before the call, without what load_documents found.
LoadInterrupted(b, l) ==
    [l.disk EXCEPT !.state_file.data.data_loaded = b.sys.data_loaded,
                   !.state_file.data.indexed_document_ids = b.dm.indexed_document_ids]

\* The process dies in the load_documents call of a cycle, after it has saved
\* new documents, and is started again
CrashInLoad(w) ==
    /\ workers[w].pc = "queued"
    /\ \E fault \in LoadFaults, env \in Envs :
           LET b == ri_begin(G, Env(fault))
               l == ri_documents(b, workers[w].force, workers[w].check_new, Env(fault))
           IN  /\ ~l.exc
               /\ l.disk.documents_file # disk.documents_file
               /\ RestartProcess(Boot(load_state(NewProcess(LoadInterrupted(b, l))), env))
    /\ UNCHANGED <<remote, budget, call>>

StartIndexingRequest ==
    \E force \in BOOLEAN, background \in BOOLEAN, fault \in StartFaults :
        StartRequest(start_indexing(G, force, background, Env(fault)), force)

InitializeRequest ==
    \E force \in BOOLEAN, background \in BOOLEAN :
        \E fault \in InitializeFaults(force) :
            StartRequest(initialize_system(G, force, background, Env(fault)), force)

AnySearchRequest ==
    \E query \in Queries, fault \in SearchFaults : SearchRequest(query, Env(fault))

Next ==
    \/ StartIndexingRequest
    \/ InitializeRequest
    \/ AnySearchRequest
    \/ \E w \in Workers :
           \/ CycleLoad(w) \/ CycleIndex(w) \/ CycleInit(w)
           \/ CycleValidate(w)
    \/ RemoteChange
    \/ \E tear \in BOOLEAN, env \in Envs : Restart(tear, env)

Spec == Init /\ [][Next]_vars

\* The process is started again with --check-new (lines 2044-2053): after
\* startup_event, and the run_indexing call it registered, comes
\* run_indexing(False, True)
RestartCheckNew(env) ==
    /\ budget.cycles > 0
    /\ LET b == Boot(load_state(NewProcess(disk)), env)
           first == IF b.g.ret = "post" THEN 2 ELSE 1
       IN  /\ Commit(b.g)
           /\ workers' = [w \in Workers |->
                             IF w = first THEN Task(FALSE, TRUE, TRUE)
                             ELSE StartupTasks(b.g.ret = "post")[w]]
           /\ Respond("startup", b.loaded)
    /\ budget' = [budget EXCEPT !.cycles = @ - 1]
    /\ UNCHANGED <<remote, call>>

\* The program with crashes in load_documents and starts with --check-new,
\* and one more cycle or restart
CrashInit ==
    /\ \E env \in Envs, f \in {NoStateFile, OtherVersionStateFile} :
           InitProcess(Boot(load_state(NewProcess(BlankDisk(f))), env))
    /\ remote = {1}
    /\ budget = [cycles |-> MaxCycles + 1, remote |-> MaxRemoteChanges]
    /\ call = NoCall

CrashNext ==
    \/ StartIndexingRequest
    \/ \E w \in Workers :
           \/ CycleLoad(w) \/ CycleIndex(w) \/ CycleInit(w)
           \/ CycleValidate(w)
    \/ RemoteChange
    \/ \E tear \in BOOLEAN, env \in Envs : Restart(tear, env)
    \/ \E w \in Workers : CrashInLoad(w)
    \/ \E env \in Envs : RestartCheckNew(env)

CrashSpec == CrashInit /\ [][CrashNext]_vars

\* Time passes: a lock token in the data directory becomes older than ten minutes
LockAges ==
    /\ disk.lock_file = YoungLock
    /\ disk' = [disk EXCEPT !.lock_file = StaleLock]
    /\ resp' = NoResp
    /\ bm25_op' = "none"
    /\ UNCHANGED <<dm, se, indexing_status, system_status, remote, workers, budget,
                   call>>

\* The process started in a data directory that holds a lock token
LockInit ==
    /\ \E env \in Envs, lock \in {YoungLock, StaleLock} :
           InitProcess(Boot(load_state(NewProcess(
               [BlankDisk(NoStateFile) EXCEPT !.lock_file = lock])), env))
    /\ remote = {1}
    /\ budget = [cycles |-> MaxCycles, remote |-> MaxRemoteChanges]
    /\ call = NoCall

\* The start-indexing calls and their cycles, with a lock token on disk
LockNext ==
    \/ StartIndexingRequest
    \/ \E w \in Workers :
           \/ CycleLoad(w) \/ CycleIndex(w) \/ CycleInit(w)
           \/ CycleValidate(w)
    \/ LockAges

LockSpec == LockInit /\ [][LockNext]_vars

\* The positions of a run_indexing call
Pcs == {"idle", "queued", "index", "init", "validate"}

Tasks == [pc : Pcs, force : BOOLEAN, check_new : BOOLEAN, fg : BOOLEAN,
          iforce : BOOLEAN, found : BOOLEAN]

\* A step of a run_indexing call: of the steps of Next, those that move a
\* call and leave the budget alone are CycleLoad, CycleIndex, CycleInit and
\* CycleValidate (a start request and a restart use budget, a search and a
\* rejected request move no call).  It is enabled while a call is queued or
\* executing.
CallMoves ==
    /\ \E w \in Workers : workers[w].pc # "idle"
    /\ budget' = budget
    /\ workers' \in [Workers -> Tasks]
    /\ workers' # workers

\* A thread of the pool, or the event loop for a foreground call, keeps
\* running the run_indexing calls it has been given
FairSpec == Spec /\ WF_<<workers, budget>>(CallMoves)

\* ------------------------------------------------------------- claims
\* The run_indexing calls that are executing: started and not yet returned
Executing == {w \in Workers : workers[w].pc \notin {"idle", "queued"}}

\* C1: at most one indexing cycle (run_indexing) is executing at any time, for
\* every interleaving of /indexing/start and /initialize requests, background
\* or foreground, and the indexing a process start triggers.
C1_AtMostOneCycleExecuting == Cardinality(Executing) <= 1

\* The outcome of a start request that is rejected in the current state: the
\* response "running" (Indexing already in progress), the state as it is, no
\* run_indexing call
Rejected == HandlerOut(G, "running", "none")

\* C2: a start request (/indexing/start or /initialize), whatever its
\* arguments, received while indexing_status.running is true returns the
\* already-running response and neither starts nor queues a cycle: documents,
\* indexes, files and status are left as they are.
C2_StartRejectedWhileRunning ==
    indexing_status.running =>
        \A force \in BOOLEAN, background \in BOOLEAN, fault \in Faults :
            /\ start_indexing(G, force, background, Env(fault)) = Rejected
            /\ initialize_system(G, force, background, Env(fault)) = Rejected

\* C2 witness: a cycle runs in the background, running is set, and a request
\* /indexing/start that the event loop can serve now is answered "running"
C2_Witness ==
    /\ indexing_status.running
    /\ Executing # {}
    /\ ~FgBusy
    /\ start_indexing(G, TRUE, TRUE, Env("none")).status = "running"

\* C3: after load_state on any persisted state file, one written while a cycle
\* was running (a crash mid-index) and one of another schema_version included,
\* the load has succeeded and indexing_status.running is false.
C3_LoadSucceedsNotRunning ==
    resp.op = "startup" /\ resp.status # "absent" =>
        resp.status = "true" /\ ~indexing_status.running

\* No run_indexing call is queued or executing
Quiescent == \A w \in Workers : workers[w].pc = "idle"

\* The BM25 corpus holds the entry of document d
InCorpus(d) ==
    \E i \in DOMAIN se.tokenized_corpus : se.tokenized_corpus[i] = Tokenize(d)

\* The vector collection holds the entry of document d
InCollection(d) == disk.chroma.exists /\ d \in disk.chroma.ids

\* C4: between operations, a document id is a member of indexed_document_ids
\* if and only if both the BM25 corpus and the vector collection hold an
\* entry for that document.
C4_IndexedIffInBothIndexes ==
    Quiescent =>
        \A d \in DocIds :
            d \in dm.indexed_document_ids <=> InCorpus(d) /\ InCollection(d)

\* C5: after every build (_setup_bm25) and every extend
\* (_add_new_documents_to_bm25), reached through any sequence of initialize
\* calls, len(tokenized_corpus) = len(documents).
C5_CorpusMatchesDocuments ==
    bm25_op \in {"build", "rebuild", "extend"} =>
        Len(se.tokenized_corpus) = Len(se.documents)

\* The loaded corpus and the documents differ in length
CorpusMismatch == Len(se.tokenized_corpus) # Len(se.documents)

\* C6: a loaded tokenized corpus whose length differs from the document count
\* is detected and the index is rebuilt from scratch over all documents (only
\* a process start leaves such a corpus loaded, with the engine not
\* initialized); keyword_search never scores against a corpus whose length
\* differs from the document count.
C6_MismatchRebuiltNeverScored ==
    /\ bm25_op = "rebuild" => se.tokenized_corpus = TokenizeAll(se.documents)
    /\ bm25_op = "load" /\ CorpusMismatch =>
           resp.op = "startup" /\ ~se.is_initialized
    /\ \A query \in Queries :
           keyword_search(G, query).status = "ok" => ~CorpusMismatch

\* C7: a search whose query matches no document while both subsystems work
\* (both candidate sets are empty, neither method failed) returns an empty
\* result list as a success.
C7_NoMatchIsEmptySuccess ==
    ~FgBusy =>
        \A query \in Queries, fault \in SearchFaults :
            LET out == search_documents(G, query, Env(fault)) IN
            out.kw = "ok" /\ out.sem = "ok"
            /\ keyword_search(out.g, query).ids = {}
            /\ semantic_search(out.g, query, Env(fault)).ids = {}
            => out.status = "ok" /\ out.results = {}

\* C8: when both the lexical and the vector subsystem are unusable (neither
\* method delivered a result list: it raised, its query failed, or it could
\* not be consulted), search fails with an explicit error on every path, the
\* semantic-only fallback included; it never answers with a success.
C8_BothUnusableIsError ==
    ~FgBusy =>
        \A query \in Queries, fault \in SearchFaults :
            LET out == search_documents(G, query, Env(fault)) IN
            out.kw # "ok" /\ out.sem # "ok" => out.status \in {"error", "unavailable"}

\* The vector subsystem did not deliver: its query raised, or the collection
\* is missing
VectorUnusable(out) == out.sem \in {"failed", "raised", "unusable"}

\* C9: when the vector subsystem is unusable while the lexical index is
\* usable, search does not raise and returns the lexical-only results: the
\* documents the keyword search found, none with a semantic contribution.
C9_VectorDownLexicalOnly ==
    ~FgBusy =>
        \A query \in Queries, fault \in SearchFaults :
            LET out == search_documents(G, query, Env(fault)) IN
            out.kw = "ok" /\ VectorUnusable(out) =>
                /\ out.status = "ok"
                /\ {r.id : r \in out.results} = keyword_search(out.g, query).ids
                /\ \A r \in out.results : r.lexical /\ ~r.semantic

\* A run_indexing call has just returned
CycleEnded == resp.op = "cycle"

\* indexing_status in memory and in the state file agree on running and message
Persisted ==
    /\ disk.state_file.exists /\ ~disk.state_file.torn
    /\ disk.state_file.data.running = indexing_status.running
    /\ disk.state_file.data.message = indexing_status.message

\* When a run_indexing call returns, running is false in memory and in the
\* state file; when it returns after an error, both hold the error message
CycleEndsNotRunning ==
    CycleEnded =>
        /\ ~indexing_status.running
        /\ Persisted
        /\ resp.status = "error" =>
               indexing_status.message = "Fehler bei der Indexierung"

\* C10: every indexing cycle terminates with indexing_status.running = false,
\* on success and on an error raised in a step; on error the error message
\* is retained in indexing_status.message, in memory and in the state file.
C10_CycleTerminatesNotRunning ==
    /\ []CycleEndsNotRunning
    /\ (Executing # {}) ~> (Executing = {} /\ ~indexing_status.running)

\* C10 witness: a cycle has ended on an error, the message is persisted
C10_Witness ==
    /\ CycleEnded /\ resp.status = "error"
    /\ ~indexing_status.running
    /\ disk.state_file.data.message = "Fehler bei der Indexierung"

\* A run_indexing call is about to validate the engine
AtValidation == \E w \in Workers : workers[w].pc = "validate"

\* The forced rebuild of run_indexing in state v under fault: the state that
\* SearchEngine.initialize(force_update=True) left, ret its return value
ForcedRebuild(v, fault) == initialize(v, TRUE, Env(fault))

\* C11: in a cycle whose validation fails, one forced full rebuild with its
\* re-validation follows; the cycle then ends without raising, not running,
\* and when the re-validation failed too the status message reports the
\* failure, not a successful rebuild.
C11_FailedRebuildReported ==
    AtValidation =>
        \A f1 \in ValidateFaults, f2 \in Faults :
            LET v == ri_validate(G, Env(f1)) IN
            v.ret = "rebuild" =>
                LET r == ri_rebuild(v, Env(f2)) IN
                /\ r.ret = "done" /\ ~r.exc /\ ~r.ist.running
                /\ ForcedRebuild(v, f2).ret # "true" =>
                       r.ist.message = "Failed to rebuild index"

\* load_state of the process that has just started found a state file it
\* could not load
FoundUnloadableStateFile == resp.op = "startup" /\ resp.status = "false"

\* C12: the state is persisted atomically: wherever the process crashed, in
\* the middle of writing the state file included, the state file found on the
\* restart is a complete, loadable snapshot.
C12_StateFileLoadableAfterCrash == ~FoundUnloadableStateFile

\* A search request can be served while a run_indexing call executes, on an
\* engine that has been initialized
SearchDuringCycle == Executing # {} /\ ~FgBusy /\ se.is_initialized

\* The BM25 corpus holds exactly the entries of the engine's documents
CorpusOfDocuments == se.tokenized_corpus = TokenizeAll(se.documents)

\* The engine has a vector collection that exists and holds entries
CollectionPopulated == se.collection /\ disk.chroma.exists /\ disk.chroma.ids # {}

\* C13: a search request executing concurrently with an indexing cycle reads
\* a mutually consistent pair of lexical corpus and document list and a
\* populated vector collection: never documents extended without their corpus
\* entries, never a deleted or empty collection.
C13_SearchSeesConsistentIndexes ==
    SearchDuringCycle => CorpusOfDocuments /\ CollectionPopulated

\* ------------------------------------------------------------------ C14
\* The indexes on disk are present and agree: the documents of DOCUMENTS_FILE,
\* one collection entry and one corpus entry of the BM25 file for each.
SnapshotsConsistent(d) ==
    /\ d.documents_file.exists /\ d.documents_file.docs # <<>>
    /\ d.chroma.exists /\ d.chroma.ids = Ids(d.documents_file.docs)
    /\ d.bm25_file.exists /\ d.bm25_file.corpus = TokenizeAll(d.documents_file.docs)

\* run_indexing(force_update=False) from validation on, v the state ri_validate left
PostStartupValidated(v, env) == IF v.ret = "rebuild" THEN ri_rebuild(v, env) ELSE v

\* run_indexing(force_update=False) from SearchEngine.initialize on, i the
\* state ri_index left
PostStartupIndexed(i, found, env) ==
    PostStartupValidated(
        ri_validate(IF i.ret = "go"
                    THEN AfterInitialize(init_indexes(i, FALSE, env), found)
                    ELSE i, env),
        env)

\* run_indexing(force_update=False) once the documents are loaded into l
PostStartupLoaded(l, env) ==
    IF l.exc THEN ri_except(l)
    ELSE PostStartupIndexed(ri_index(l, FALSE, env), l.dm.new_document_ids # {}, env)

\* The process started on the files of d: startup_event and, when it
\* registered post_startup_init, the run_indexing(force_update=False) of it
StartedProcess(g, env) ==
    IF g.ret = "post" THEN PostStartupLoaded(ri_load(g, FALSE, FALSE, env), env) ELSE g

RestartOn(d, env) == StartedProcess(Boot(load_state(NewProcess(d)), env).g, env)

\* C14: when the document snapshot, the vector collection and the lexical
\* snapshot on disk are present and agree, a restart without faults (on the
\* state file as it is, or torn by the crash when a cycle was running) leaves
\* the search engine usable, and neither fetches from the remote, nor builds
\* the BM25 index from the documents, nor deletes or creates the collection.
C14_RestartReusesIndexes ==
    SnapshotsConsistent(disk) =>
        \A tear \in {t \in BOOLEAN : t => CycleActive} :
            LET g == RestartOn(IF tear THEN [disk EXCEPT !.state_file = TornStateFile]
                               ELSE disk, Env("none")) IN
            /\ g.se.is_initialized /\ g.se.bm25_initialized /\ g.se.collection
            /\ g.calls = {}
            /\ g.disk.chroma = disk.chroma
            /\ g.se.documents = disk.documents_file.docs

\* A restart found the three snapshots in agreement and loaded the indexes
C14_Witness ==
    /\ resp.op = "startup" /\ SnapshotsConsistent(disk)
    /\ se.is_initialized /\ se.bm25_initialized /\ se.collection
    /\ bm25_op = "load"

\* ------------------------------------------------------------------ C15
\* C15: a start-indexing call that finds a lock token older than ten minutes
\* removes it and, unless a cycle is flagged running, starts indexing; one that
\* finds a younger lock token starts nothing.
C15_StaleLockRemovedYoungLockBlocks ==
    ~FgBusy => \A force \in BOOLEAN, background \in BOOLEAN, fault \in StartFaults :
        LET out == start_indexing(G, force, background, Env(fault)) IN
        /\ disk.lock_file = YoungLock => out.task = "none"
        /\ disk.lock_file = StaleLock =>
               /\ ~out.g.disk.lock_file.exists
               /\ ~indexing_status.running => out.task # "none"

\* ------------------------------------------------------------------ C16
\* fetch_documents_from_api when document d has content content[d]: each
\* processed document carries its id and the hash of its content (line 430)
ProcessedDocuments(content) ==
    {[id |-> d, hash |-> _compute_document_hash(content[d])] : d \in DOMAIN content}

\* _check_for_new_documents, lines 446-451: the ids it puts in new_document_ids
NewDocumentIds(api_documents, indexed) ==
    {doc.id : doc \in {x \in api_documents : x.id \notin indexed}}

\* C16: whatever the stored and the remote contents are, the candidates of a
\* check for new documents are the remote ids outside the indexed set together
\* with the indexed ids whose remote hash differs from the stored hash.
C16_ChangedHashIsCandidate ==
    \A stored \in [remote \cap dm.indexed_document_ids -> Contents],
       now \in [remote -> Contents] :
        NewDocumentIds(ProcessedDocuments(now), dm.indexed_document_ids)
            = (remote \ dm.indexed_document_ids)
              \cup {d \in DOMAIN stored :
                       _compute_document_hash(stored[d]) # _compute_document_hash(now[d])}

\* ------------------------------------------------------------------ C17
\* DataManager.check_for_updates and the /indexing/check handler around it: the
\* state it leaves and the message of its response.  results[0] is the first
\* document in the order of the API.
check_for_updates(g, env) ==
    [g |-> g,
     message |->
        IF g.ist.running THEN "Indexing already in progress"
        ELSE IF ~env.api THEN "API error"
        ELSE IF remote = {} THEN "No documents found in API"
        ELSE IF Head(fetch_documents_from_api) \in g.dm.indexed_document_ids
        THEN "No new documents detected"
        ELSE "New documents detected"]

\* C17: on an existing document snapshot, an update check whose remote fetch
\* fails (load_documents with check_new, or check_for_updates) does not raise,
\* leaves the document list and indexed_document_ids those of the snapshot, and
\* leaves in indexing_status.message something other than what the same check
\* leaves when the fetch succeeds.
C17_FailedCheckKeepsSnapshotAndReports ==
    disk.documents_file.exists /\ ~indexing_status.running =>
        LET snapshot == disk.documents_file.docs
            ids == IF dm.indexed_document_ids = {} THEN Ids(snapshot)
                   ELSE dm.indexed_document_ids
            r == load_documents(G, FALSE, TRUE, Env("api"))
            u == check_for_updates(G, Env("api"))
        IN  /\ ~r.exc
            /\ r.dm.documents = snapshot /\ r.dm.indexed_document_ids = ids
            /\ u.g.dm = dm
            /\ r.ist.message # load_documents(G, FALSE, TRUE, Env("none")).ist.message
            /\ u.g.ist.message # check_for_updates(G, Env("none")).g.ist.message

\* ------------------------------------------------------------------ C18
\* A score: the fraction n/d with d positive
Rat(n, d) == [n |-> n, d |-> d]

RatTimes(a, b) == Rat(a.n * b.n, a.d * b.d)

RatPlus(a, b) == Rat(a.n * b.d + b.n * a.d, a.d * b.d)

RatEq(a, b) == a.n * b.d = b.n * a.d

RatLess(a, b) == a.n * b.d < b.n * a.d

BM25_WEIGHT == Rat(3, 10)

SEMANTIC_WEIGHT == Rat(7, 10)

\* The largest BM25 score and the largest distance (in halves) of the lists
\* that are fused
MaxRawScore == 2
MaxHalves == 3

\* The documents of a result list
ResultIds(results) == {results[i].id : i \in DOMAIN results}

\* The position of document id in a result list, 0 when it is not there: the
\* last one, as a dict keeps the last value assigned to a key
Position(results, id) ==
    IF \E i \in DOMAIN results : results[i].id = id
    THEN CHOOSE i \in DOMAIN results :
             /\ results[i].id = id
             /\ \A j \in DOMAIN results : results[j].id = id => j <= i
    ELSE 0

\* hybrid_search, lines 1137-1140: score / max_keyword_score, the raw scores
\* being positive floats
NormalizedKeyword(keyword_results) ==
    LET scores == {keyword_results[i].score : i \in DOMAIN keyword_results}
        max_keyword_score == CHOOSE x \in scores : \A y \in scores : y <= x
    IN
    [i \in DOMAIN keyword_results |->
        [id |-> keyword_results[i].id,
         score |-> IF max_keyword_score > 0
                   THEN Rat(keyword_results[i].score, max_keyword_score)
                   ELSE Rat(0, 1)]]

\* A similarity that is 1 - distance whatever the distance
SimilarityUnclamped(distance) == Rat(distance.d - distance.n, distance.d)

\* hybrid_search, lines 1142-1146: 1 - distance when distance <= 1, else 0
Similarity(distance) ==
    IF distance.n <= distance.d THEN Rat(distance.d - distance.n, distance.d)
    ELSE Rat(0, 1)

\* hybrid_search, lines 1149-1154: results_map after the keyword results, as
\* the list of its items in insertion order
RECURSIVE AddKeyword(_, _)
AddKeyword(results_map, results) ==
    IF results = <<>> THEN results_map
    ELSE LET r == [id |-> Head(results).id,
                   score |-> RatTimes(Head(results).score, BM25_WEIGHT)]
             at == Position(results_map, r.id)
         IN  AddKeyword(IF at = 0 THEN Append(results_map, r)
                        ELSE [results_map EXCEPT ![at] = r],
                        Tail(results))

\* hybrid_search, lines 1157-1165: results_map after the semantic results
RECURSIVE AddSemantic(_, _)
AddSemantic(results_map, results) ==
    IF results = <<>> THEN results_map
    ELSE LET term == RatTimes(Similarity(Head(results).score), SEMANTIC_WEIGHT)
             at == Position(results_map, Head(results).id)
         IN  AddSemantic(
                 IF at = 0
                 THEN Append(results_map, [id |-> Head(results).id, score |-> term])
                 ELSE [results_map EXCEPT ![at].score = RatPlus(@, term)],
                 Tail(results))

\* list.sort(key=score, reverse=True): stable, the higher score first
RECURSIVE SortByScore(_)
SortByScore(results) ==
    IF results = <<>> THEN <<>>
    ELSE LET sorted == SortByScore(SubSeq(results, 1, Len(results) - 1))
             r == results[Len(results)]
             before == SelectSeq(sorted, LAMBDA x : ~RatLess(x.score, r.score))
             after == SelectSeq(sorted, LAMBDA x : RatLess(x.score, r.score))
         IN  before \o <<r>> \o after

\* A fusion that keeps the keyword term alone for a document of both lists
FuseScoresNoSum(keyword_results, semantic_results, top_k) ==
    IF keyword_results = <<>> /\ semantic_results = <<>> THEN "raised"
    ELSE LET results_map == AddKeyword(<<>>, NormalizedKeyword(keyword_results))
             combined_results ==
                 SortByScore(AddSemantic(results_map,
                     SelectSeq(semantic_results,
                               LAMBDA r : Position(results_map, r.id) = 0)))
         IN  SubSeq(combined_results, 1, Min({top_k, Len(combined_results)}))

\* hybrid_search, lines 1126-1172: the fusion of the two result lists; "raised"
\* when both are empty
FuseScores(keyword_results, semantic_results, top_k) ==
    IF keyword_results = <<>> /\ semantic_results = <<>> THEN "raised"
    ELSE LET combined_results ==
                 SortByScore(AddSemantic(
                     AddKeyword(<<>>, NormalizedKeyword(keyword_results)),
                     semantic_results))
         IN  SubSeq(combined_results, 1, Min({top_k, Len(combined_results)}))

\* The lists of at most MaxDocId results with one result for a document
ResultLists(scores) ==
    UNION {{l \in [1..n -> [id : DocIds, score : scores]] :
               \A i, j \in 1..n : l[i].id = l[j].id => i = j} : n \in 0..MaxDocId}

\* What keyword_search returns: positive scores, the highest first
KeywordResultLists ==
    {l \in ResultLists(1..MaxRawScore) :
        \A i, j \in DOMAIN l : i <= j => l[i].score >= l[j].score}

\* What semantic_search returns: distances, the nearest first
SemanticResultLists ==
    {l \in ResultLists({Rat(h, 2) : h \in 0..MaxHalves}) :
        \A i, j \in DOMAIN l : i <= j => ~RatLess(l[j].score, l[i].score)}

FuseCalls ==
    [op : {"fuse"}, keyword_results : KeywordResultLists,
     semantic_results : SemanticResultLists, top_k : 1..MaxDocId,
     done : {FALSE}, out : {<<>>}]

\* The fusion of hybrid_search is run on its arguments
FuseCall ==
    /\ call.op = "fuse" /\ ~call.done
    /\ call' = [call EXCEPT !.done = TRUE,
                   !.out = FuseScores(call.keyword_results, call.semantic_results,
                                      call.top_k)]
    /\ UNCHANGED <<disk, dm, se, indexing_status, system_status, remote, workers,
                   resp, bm25_op, budget>>

\* The documents of the batches the BM25 index is built over
MaxBatchDocId == 3

\* The batches of documents, in the order the API served them
Batches ==
    UNION {{b \in [1..n -> 1..MaxBatchDocId] : \A i, j \in 1..n : b[i] = b[j] => i = j}
              : n \in 1..MaxBatchDocId}

Bm25Calls ==
    {c \in [op : {"bm25"}, first : Batches, second : Batches, done : {FALSE},
            full : {FreshSE}, incremental : {FreshSE}] :
        Ids(c.first) \cap Ids(c.second) = {}}

\* A search engine whose documents are docs, new the ids of the new ones
EngineOver(g, docs, new) ==
    [g EXCEPT !.se.documents = docs, !.dm.documents = docs,
              !.dm.new_document_ids = new, !.se.is_initialized = TRUE]

\* SearchEngine.initialize, lines 780-808, twice: the BM25 index is built over
\* the first batch, then the second batch is added to the documents and to the index
BuiltThenExtended(first, second) ==
    _add_new_documents_to_bm25(
        EngineOver(_setup_bm25(EngineOver(NewProcess(BlankDisk(NoStateFile)),
                                          first, Ids(first))),
                   first \o second, Ids(second)))

\* SearchEngine.initialize, lines 780-808, once: the BM25 index is built over
\* the documents of both batches
BuiltAtOnce(first, second) ==
    _setup_bm25(EngineOver(NewProcess(BlankDisk(NoStateFile)), first \o second,
                           Ids(first) \cup Ids(second)))

\* The BM25 index is built over two batches, at once and in two steps
Bm25Call ==
    /\ call.op = "bm25" /\ ~call.done
    /\ call' = [call EXCEPT !.done = TRUE,
                   !.full = BuiltAtOnce(call.first, call.second).se,
                   !.incremental = BuiltThenExtended(call.first, call.second).se]
    /\ UNCHANGED <<disk, dm, se, indexing_status, system_status, remote, workers,
                   resp, bm25_op, budget>>

\* The documents of one _add_documents_to_chroma call, and the documents of a
\* batch of it (100 in main.py)
MaxUpserted == 3
batch_size == 2

\* What the collection holds for a document: its id, the text that is embedded
\* and the hash of the metadata
ChromaEntry(doc) ==
    [id |-> doc.id, text |-> doc.content, hash |-> _compute_document_hash(doc.content)]

\* A collection.add in the place of the upsert: the entry is added even when
\* the collection holds one of that id
AddEntry(entries, e) == Append(entries, e)

\* collection.upsert of one entry: it replaces the entry of that id when there
\* is one
UpsertEntry(entries, e) ==
    IF \E i \in DOMAIN entries : entries[i].id = e.id
    THEN [i \in DOMAIN entries |-> IF entries[i].id = e.id THEN e ELSE entries[i]]
    ELSE Append(entries, e)

RECURSIVE UpsertAll(_, _)
UpsertAll(entries, batch) ==
    IF batch = <<>> THEN entries
    ELSE UpsertAll(UpsertEntry(entries, ChromaEntry(Head(batch))), Tail(batch))

\* One collection.upsert call with all the documents in the place of the loop
\* over the batches
UpsertDocumentsInOneCall(entries, documents, on_duplicate) ==
    IF on_duplicate = "raise"
       /\ \E i, j \in DOMAIN documents : i # j /\ documents[i].id = documents[j].id
    THEN [entries |-> entries, exc |-> TRUE, batches |-> <<documents>>]
    ELSE [entries |-> UpsertAll(entries, documents), exc |-> FALSE,
          batches |-> <<documents>>]

\* _add_documents_to_chroma, lines 660-689: collection.upsert batch by batch.
\* ChromaDB either refuses a batch that names an id twice (on_duplicate
\* "raise": the call raises, the batches before it are in) or upserts its
\* entries one after the other ("last").  batches are the batches
\* collection.upsert was called with, in the order of the calls.
RECURSIVE UpsertDocuments(_, _, _)
UpsertDocuments(entries, documents, on_duplicate) ==
    IF documents = <<>> THEN [entries |-> entries, exc |-> FALSE, batches |-> <<>>]
    ELSE LET n == Min({batch_size, Len(documents)})
             batch == SubSeq(documents, 1, n)
         IN  IF on_duplicate = "raise"
                /\ \E i, j \in 1..n : i # j /\ batch[i].id = batch[j].id
             THEN [entries |-> entries, exc |-> TRUE, batches |-> <<batch>>]
             ELSE LET rest == UpsertDocuments(UpsertAll(entries, batch),
                                              SubSeq(documents, n + 1, Len(documents)),
                                              on_duplicate)
                  IN  [rest EXCEPT !.batches = <<batch>> \o @]

\* The lists of at most n records of S
ListsOf(S, n) == UNION {[1..m -> S] : m \in 0..n}

UpsertCalls ==
    [op : {"upsert"},
     collection : {c \in ListsOf({ChromaEntry(d) : d \in [id : DocIds, content : Contents]},
                                MaxDocId) :
                      \A i, j \in DOMAIN c : c[i].id = c[j].id => i = j},
     documents : ListsOf([id : DocIds, content : Contents], MaxUpserted),
     on_duplicate : {"raise", "last"},
     done : {FALSE}, once : {<<>>}, twice : {<<>>}]

\* _add_documents_to_chroma is called with the same documents once and twice
UpsertCall ==
    /\ call.op = "upsert" /\ ~call.done
    /\ LET once == UpsertDocuments(call.collection, call.documents, call.on_duplicate)
       IN  call' = [call EXCEPT !.done = TRUE, !.once = once,
                       !.twice = UpsertDocuments(once.entries, call.documents,
                                                 call.on_duplicate)]
    /\ UNCHANGED <<disk, dm, se, indexing_status, system_status, remote, workers,
                   resp, bm25_op, budget>>

\* ------------------------------------------------- search after the fusion
\* The days of the dates, the cross-encoder scores (-MaxCross..MaxCross), and
\* the results hybrid_search returns at most (20 in main.py)
MaxDay == 2
MaxCross == 1
MAX_RESULTS == 3

\* str.lower() of a string, a string being the sequence of its characters
Lower(s) == [i \in DOMAIN s |-> IF s[i] = "A" THEN "a" ELSE s[i]]

\* sub in s, of Python
Contains(s, sub) ==
    \E i \in 0..(Len(s) - Len(sub)) : SubSeq(s, i + 1, i + Len(sub)) = sub

\* result["date"].split("T")[0]: a date is <<>> (""), <<day>> or <<day, time>>
DatePortion(date) == SubSeq(date, 1, 1)

\* doc_date < other, of two dates without time
DateBefore(doc_date, other) == doc_date[1] < other[1]

\* search, lines 1298-1323: whether the result is kept.  An absent filter is
\* <<>> (None or ""), a document without date or correspondent has <<>>.
Include(result, request) ==
    /\ ~(/\ request.from_date # <<>> /\ result.date # <<>>
         /\ DateBefore(DatePortion(result.date), request.from_date))
    /\ ~(/\ request.to_date # <<>> /\ result.date # <<>>
         /\ DateBefore(request.to_date, DatePortion(result.date)))
    /\ ~(/\ request.correspondent # <<>> /\ result.correspondent # <<>>
         /\ ~Contains(Lower(result.correspondent), Lower(request.correspondent)))

\* search, lines 1295-1326
FilterResults(results, request) ==
    IF request.from_date # <<>> \/ request.to_date # <<>> \/ request.correspondent # <<>>
    THEN SelectSeq(results, LAMBDA result : Include(result, request))
    ELSE results

\* 1 / (1 + exp(-score)): increasing in the score, between 0 and 1, 1/2 at 0
Sigmoid(score) == Rat(score + MaxCross + 1, 2 * (MaxCross + 1))

\* rerank_results, lines 1193-1198 and 1221-1229: the default score for all
WithDefaultScore(results) ==
    [i \in DOMAIN results |-> [results[i] EXCEPT !.cross_score = Rat(1, 2)]]

\* A reranking that scores the results and leaves them in the fused order
KeepFusedOrder(results) == results

\* results.sort(key=cross_score, reverse=True): stable, the higher score first
RECURSIVE SortByCrossScore(_)
SortByCrossScore(results) ==
    IF results = <<>> THEN <<>>
    ELSE LET sorted == SortByCrossScore(SubSeq(results, 1, Len(results) - 1))
             r == results[Len(results)]
         IN  SelectSeq(sorted, LAMBDA x : ~RatLess(x.cross_score, r.cross_score))
             \o <<r>>
             \o SelectSeq(sorted, LAMBDA x : RatLess(x.cross_score, r.cross_score))

\* A reranking that gives up on a failure of the cross-encoder
rerank_results_failing(results, predict, top_k) ==
    IF results = <<>> THEN <<>>
    ELSE IF predict.kind # "scores" THEN <<>>
    ELSE SubSeq(SortByCrossScore(
                    [i \in DOMAIN results |->
                        [results[i] EXCEPT !.cross_score = Sigmoid(predict.scores[i])]]),
                1, Min({top_k, Len(results)}))

\* SearchEngine.rerank_results.  predict is what cross_encoder.predict does:
\* it raises ("raise"), returns something that is not one score for a result
\* ("mismatch"), or returns scores[i] for result i ("scores").
rerank_results(results, predict, top_k) ==
    IF results = <<>> THEN <<>>
    ELSE IF predict.kind = "raise"
    THEN SubSeq(WithDefaultScore(results), 1, Min({top_k, Len(results)}))
    ELSE IF predict.kind = "mismatch" THEN WithDefaultScore(results)
    ELSE SubSeq(SortByCrossScore(
                    [i \in DOMAIN results |->
                        [results[i] EXCEPT !.cross_score = Sigmoid(predict.scores[i])]]),
                1, Min({top_k, Len(results)}))

\* search, lines 1336-1352: the SearchResult of a result
FormatResult(result) ==
    [doc_id |-> result.id, score |-> result.score, cross_score |-> result.cross_score,
     date |-> result.date, correspondent |-> result.correspondent]

\* search, lines 1288-1355, on the results hybrid_search returned: the list
\* of SearchResult it returns
SearchAfterFusion(results, request, predict) ==
    LET reranked_results ==
            rerank_results(FilterResults(results, request), predict, MAX_RESULTS)
    IN  [i \in DOMAIN reranked_results |-> FormatResult(reranked_results[i])]

\* The fused results of hybrid_search over documents with the attributes of
\* attrs: result i is document i, the scores descend
FusedResults(attrs) ==
    [i \in DOMAIN attrs |->
        [id |-> i, score |-> Rat(1, i), cross_score |-> Rat(0, 1),
         date |-> attrs[i].date, correspondent |-> attrs[i].correspondent]]

Dates == {<<>>} \cup {<<d>> : d \in 1..MaxDay} \cup {<<d, 0>> : d \in 1..MaxDay}

Correspondents == {<<>>, <<"a">>, <<"A">>, <<"b">>, <<"b", "A">>}

NoFilter == [from_date |-> <<>>, to_date |-> <<>>, correspondent |-> <<>>]

\* Requests with filters on two results, the cross-encoder scoring all alike
FilterCalls ==
    [op : {"search"},
     results : {FusedResults(a) :
                   a \in ListsOf([date : Dates, correspondent : Correspondents], 2)},
     request : [from_date : {<<>>} \cup {<<d>> : d \in 1..MaxDay},
                to_date : {<<>>} \cup {<<d>> : d \in 1..MaxDay},
                correspondent : {<<>>, <<"a">>, <<"A">>, <<"b">>}],
     predict : {[kind |-> "scores", scores |-> [i \in 1..MAX_RESULTS |-> 0]]},
     done : {FALSE}, out : {<<>>}]

\* Requests with or without a date filter, the cross-encoder doing all it can
RerankCalls ==
    [op : {"search"},
     results : {FusedResults(a) :
                   a \in ListsOf([date : {<<d>> : d \in 1..MaxDay},
                                  correspondent : {<<>>}], MAX_RESULTS)},
     request : {NoFilter, [NoFilter EXCEPT !.from_date = <<MaxDay>>]},
     predict : [kind : {"raise", "mismatch", "scores"},
                scores : [1..MAX_RESULTS -> (0 - MaxCross)..MaxCross]],
     done : {FALSE}, out : {<<>>}]

SearchCalls == FilterCalls \cup RerankCalls

\* search goes on from the results of hybrid_search
SearchCall ==
    /\ call.op = "search" /\ ~call.done
    /\ call' = [call EXCEPT !.done = TRUE,
                   !.out = SearchAfterFusion(call.results, call.request, call.predict)]
    /\ UNCHANGED <<disk, dm, se, indexing_status, system_status, remote, workers,
                   resp, bm25_op, budget>>

\* ------------------------------------------------------- py_utils.retryable
\* The attempts a retry wrapper is given at most
MaxAttempts == 3

\* A wrapper that re-raises the first exception of fn
wrapper_step_no_retry(c) ==
    IF c.i >= c.attempts THEN [c EXCEPT !.result = "none"]
    ELSE IF c.outcomes[c.i + 1] = "ok"
    THEN [c EXCEPT !.calls = @ + 1, !.result = "returned"]
    ELSE [c EXCEPT !.calls = @ + 1, !.result = "raised"]

\* retryable(attempts).deco(fn).wrapper, lines 53-64: one turn of
\* `for i in range(attempts)`.  outcomes[k] is what the k-th call of fn does:
\* it returns ("ok") or raises an Exception ("fail").  When the loop is over
\* the wrapper returns None ("none").
wrapper_step(c) ==
    IF c.i >= c.attempts THEN [c EXCEPT !.result = "none"]
    ELSE IF c.outcomes[c.i + 1] = "ok"
    THEN [c EXCEPT !.calls = @ + 1, !.result = "returned"]
    ELSE IF c.i = c.attempts - 1
    THEN [c EXCEPT !.calls = @ + 1, !.result = "raised"]
    ELSE [c EXCEPT !.calls = @ + 1, !.i = @ + 1]    \* time.sleep, then the next turn

RetryCalls ==
    [op : {"retry"}, attempts : 0..MaxAttempts,
     outcomes : [1..MaxAttempts -> {"ok", "fail"}],
     i : {0}, calls : {0}, result : {"pending"}]

\* The wrapper of retryable(attempts) goes through one turn of its loop
RetryCall ==
    /\ call.op = "retry" /\ call.result = "pending"
    /\ call' = wrapper_step(call)
    /\ UNCHANGED <<disk, dm, se, indexing_status, system_status, remote, workers,
                   resp, bm25_op, budget>>

\* ------------------------------------------------------- keyword_search
\* keyword_search, lines 1011-1012: the (position, score) pairs sorted by
\* list.sort(key=score, reverse=True), stable, the higher score first
RECURSIVE SortDocScores(_)
SortDocScores(doc_scores) ==
    IF doc_scores = <<>> THEN <<>>
    ELSE LET sorted == SortDocScores(SubSeq(doc_scores, 1, Len(doc_scores) - 1))
             r == doc_scores[Len(doc_scores)]
             before == SelectSeq(sorted, LAMBDA x : x.score >= r.score)
             after == SelectSeq(sorted, LAMBDA x : x.score < r.score)
         IN  before \o <<r>> \o after

\* A keyword_search that keeps the first top_k documents whatever their scores
KeywordResultsUnfiltered(scores, top_k) ==
    LET doc_scores == SortDocScores([i \in DOMAIN scores |-> [id |-> i, score |-> scores[i]]])
    IN  SubSeq(doc_scores, 1, Min({top_k, Len(doc_scores)}))

\* keyword_search, lines 1010-1034: scores[i] is the BM25 score of documents[i]
\* (what bm25.get_scores returned), document i has id i; the first top_k
\* of the sorted pairs, those of positive score among them
KeywordResults(scores, top_k) ==
    LET doc_scores == SortDocScores([i \in DOMAIN scores |-> [id |-> i, score |-> scores[i]]])
    IN  SelectSeq(SubSeq(doc_scores, 1, Min({top_k, Len(doc_scores)})),
                  LAMBDA r : r.score > 0)

\* The scores BM25Okapi gives: negative for a query term most documents hold
KeywordCalls ==
    [op : {"keyword"},
     scores : UNION {[1..n -> -1..MaxRawScore] : n \in 1..MaxBatchDocId},
     top_k : 1..MaxBatchDocId, done : {FALSE}, out : {<<>>}]

\* keyword_search ranks the documents of the scores
KeywordCall ==
    /\ call.op = "keyword" /\ ~call.done
    /\ call' = [call EXCEPT !.done = TRUE,
                   !.out = KeywordResults(call.scores, call.top_k)]
    /\ UNCHANGED <<disk, dm, se, indexing_status, system_status, remote, workers,
                   resp, bm25_op, budget>>

\* --------------------------------------------------------- create_snippet
\* The length of the contents a snippet is made of, and the largest max_len
\* create_snippet is called with (200 in main.py)
MaxContentLen == 5
MaxSnippetLen == 5

IsLetter(c) == c \in {"a", "A"}

\* word_tokenize(text.lower()), as the set create_snippet makes of it: the
\* words of the text, a word being a longest run of letters
WordSet(text) ==
    LET s == Lower(text)
    IN  {SubSeq(s, i, j) : <<i, j>> \in
            {p \in (DOMAIN s) \X (DOMAIN s) :
                /\ p[1] <= p[2]
                /\ \A k \in p[1]..p[2] : IsLetter(s[k])
                /\ p[1] = 1 \/ ~IsLetter(s[p[1] - 1])
                /\ p[2] = Len(s) \/ ~IsLetter(s[p[2] + 1])}}

\* content.split(". ")
RECURSIVE SplitSentences(_)
SplitSentences(content) ==
    LET at == {i \in 1..(Len(content) - 1) : content[i] = "." /\ content[i + 1] = " "}
    IN  IF at = {} THEN <<content>>
        ELSE LET i == CHOOSE x \in at : \A y \in at : x <= y
             IN  <<SubSeq(content, 1, i - 1)>>
                 \o SplitSentences(SubSeq(content, i + 2, Len(content)))

\* str.strip()
RECURSIVE Strip(_)
Strip(s) ==
    IF s = <<>> THEN s
    ELSE IF Head(s) = " " THEN Strip(Tail(s))
    ELSE IF s[Len(s)] = " " THEN Strip(SubSeq(s, 1, Len(s) - 1))
    ELSE s

\* create_snippet, lines 1244-1248: the sentences with the number of query
\* terms they hold
SentenceScores(query, content) ==
    LET sentences == SplitSentences(content)
    IN  [i \in DOMAIN sentences |->
            [sentence |-> sentences[i],
             score |-> Cardinality(WordSet(query) \cap WordSet(sentences[i]))]]

\* create_snippet, lines 1254-1259: the sentences are appended until one does
\* not fit
RECURSIVE AppendSentences(_, _, _)
AppendSentences(snippet, sentence_scores, max_len) ==
    IF sentence_scores = <<>> THEN snippet
    ELSE IF Len(snippet) + Len(Head(sentence_scores).sentence) <= max_len
    THEN AppendSentences(snippet \o Head(sentence_scores).sentence \o <<".", " ">>,
                         Tail(sentence_scores), max_len)
    ELSE snippet

\* content[:max_len] + "..."
ContentPrefix(content, max_len) ==
    SubSeq(content, 1, Min({max_len, Len(content)})) \o <<".", ".", ".">>

\* create_snippet, lines 1231-1272; tokenizer_raises when word_tokenize raises
create_snippet(query, content, max_len, tokenizer_raises) ==
    IF content = <<>> THEN <<>>
    ELSE IF tokenizer_raises THEN ContentPrefix(content, max_len)
    ELSE LET snippet == AppendSentences(<<>>,
                            SortDocScores(SentenceScores(query, content)), max_len)
         IN  Strip(IF snippet = <<>> THEN ContentPrefix(content, max_len) ELSE snippet)

\* The strings of at most n characters
Strings(n) == UNION {[1..m -> {"a", "A", ".", " "}] : m \in 0..n}

SnippetCalls ==
    [op : {"snippet"}, query : {<<>>, <<"a">>, <<"A", "a">>, <<"a", " ", "a", "a">>},
     content : Strings(MaxContentLen), max_len : 1..MaxSnippetLen,
     tokenizer_raises : BOOLEAN, done : {FALSE}, out : {<<>>}]

\* create_snippet is called
SnippetCall ==
    /\ call.op = "snippet" /\ ~call.done
    /\ call' = [call EXCEPT !.done = TRUE,
                   !.out = create_snippet(call.query, call.content, call.max_len,
                                          call.tokenizer_raises)]
    /\ UNCHANGED <<disk, dm, se, indexing_status, system_status, remote, workers,
                   resp, bm25_op, budget>>

\* A process that serves no request while one function is called on its own
CallInit ==
    /\ InitProcess(Boot(load_state(NewProcess(BlankDisk(NoStateFile))), Env("none")))
    /\ remote = {}
    /\ budget = [cycles |-> 0, remote |-> 0]
    /\ call \in FuseCalls \cup Bm25Calls \cup UpsertCalls
            \cup SearchCalls
            \cup RetryCalls
            \cup KeywordCalls
            \cup SnippetCalls

CallNext == FuseCall \/ Bm25Call \/ UpsertCall
    \/ SearchCall
    \/ RetryCall
    \/ KeywordCall
    \/ SnippetCall

CallSpec == CallInit /\ [][CallNext]_vars

\* C18: in the result of the fusion of hybrid_search (both searches were
\* attempted and at least one returned results), a document that is only in the keyword
\* results, with normalized score s, has the score BM25_WEIGHT * s; one that is
\* only in the semantic results, with similarity t, has SEMANTIC_WEIGHT * t; one
\* in both has the sum; and the result holds the first top_k documents of the
\* union of the two lists, each once.
C18_FusionLaw ==
    call.op = "fuse" /\ call.done /\ call.out # "raised" =>
        LET k == NormalizedKeyword(call.keyword_results)
            s == call.semantic_results
            both == ResultIds(k) \cup ResultIds(s)
            lexical(d) == RatTimes(BM25_WEIGHT, k[Position(k, d)].score)
            semantic(d) == RatTimes(SEMANTIC_WEIGHT,
                                    Similarity(s[Position(s, d)].score))
        IN  /\ ResultIds(call.out) \subseteq both
            /\ Len(call.out) = Min({call.top_k, Cardinality(both)})
            /\ \A i, j \in DOMAIN call.out : call.out[i].id = call.out[j].id => i = j
            /\ \A i \in DOMAIN call.out :
                 LET d == call.out[i].id IN
                 RatEq(call.out[i].score,
                       IF d \notin ResultIds(s) THEN lexical(d)
                       ELSE IF d \notin ResultIds(k) THEN semantic(d)
                       ELSE RatPlus(lexical(d), semantic(d)))

\* A fused result with a document of the keyword results only, one of the
\* semantic results only, or one of both with two positive terms
C18_Witness ==
    /\ call.op = "fuse" /\ call.done /\ call.out # "raised"
    /\ Len(call.out) = MaxDocId
    /\ ResultIds(call.keyword_results) # ResultIds(call.semantic_results)
    /\ ResultIds(call.keyword_results) \cap ResultIds(call.semantic_results) # {}
    /\ \E i \in DOMAIN call.out : RatLess(BM25_WEIGHT, call.out[i].score)

\* ------------------------------------------------------------------ C19
\* keyword_search, lines 994-1034, on the engine e: the documents of positive
\* score for the query (the documents whose tokens the query holds), in the
\* order of their positions; "raised" when the index does not match the documents
KeywordRanking(e, query) ==
    IF Len(e.tokenized_corpus) # Len(e.documents) THEN <<"raised">>
    ELSE LET hits == SelectSeq([i \in DOMAIN e.documents |-> i],
                               LAMBDA i : e.tokenized_corpus[i].tokens_of \in query)
         IN  [n \in DOMAIN hits |-> e.documents[hits[n]]]

\* C19: the BM25 index built over a first batch and then extended by a second
\* batch of other documents ranks the documents, for every query, as the index
\* built over both batches at once.
C19_IncrementalEqualsFull ==
    call.op = "bm25" /\ call.done =>
        \A query \in SUBSET (1..MaxBatchDocId) :
            KeywordRanking(call.incremental, query) = KeywordRanking(call.full, query)

\* ------------------------------------------------------------------ C20
\* C20: _add_documents_to_chroma called twice with the same documents leaves
\* the collection as one call leaves it: the same entries, the same ids, and
\* one entry for an id -- the ids the collection had and, when the call did
\* not raise, those of the documents.
C20_UpsertIdempotent ==
    call.op = "upsert" /\ call.done =>
        /\ call.twice = call.once
        /\ ResultIds(call.twice.entries) = ResultIds(call.once.entries)
        /\ \A i, j \in DOMAIN call.twice.entries :
               call.twice.entries[i].id = call.twice.entries[j].id => i = j
        /\ ~call.once.exc =>
               ResultIds(call.once.entries)
                   = _add_documents_to_chroma(
                         [exists |-> TRUE, ids |-> ResultIds(call.collection)],
                         [i \in DOMAIN call.documents |-> call.documents[i].id]).ids

\* Two batches were upserted twice, and a document the collection held with
\* another text is among them
C20_Witness ==
    /\ call.op = "upsert" /\ call.done /\ ~call.once.exc
    /\ Len(call.documents) > batch_size
    /\ \E i \in DOMAIN call.collection, j \in DOMAIN call.documents :
           /\ call.collection[i].id = call.documents[j].id
           /\ call.collection[i].text # call.documents[j].content
    /\ ResultIds(call.documents) \ ResultIds(call.collection) # {}

\* ------------------------------------------------------------------ C21
\* C21: every result search returns satisfies each filter of the request (the
\* day of its date is not before from_date and not after to_date, its
\* correspondent holds the filter string, case ignored), the results returned
\* are those of hybrid_search that do, and each keeps its fused score.
C21_ResultsSatisfyFilters ==
    call.op = "search" /\ call.done =>
        LET matches(r) ==
                /\ call.request.from_date # <<>> =>
                       /\ r.date # <<>>
                       /\ ~DateBefore(DatePortion(r.date), call.request.from_date)
                /\ call.request.to_date # <<>> =>
                       /\ r.date # <<>>
                       /\ ~DateBefore(call.request.to_date, DatePortion(r.date))
                /\ call.request.correspondent # <<>> =>
                       Contains(Lower(r.correspondent), Lower(call.request.correspondent))
        IN  /\ \A i \in DOMAIN call.out : matches(call.out[i])
            /\ {call.out[i].doc_id : i \in DOMAIN call.out}
                   = {call.results[i].id : i \in {j \in DOMAIN call.results :
                                                     matches(call.results[j])}}
            /\ \A i \in DOMAIN call.out :
                   call.out[i].score = call.results[call.out[i].doc_id].score

\* ------------------------------------------------------------------ C22
\* C22: when cross_encoder.predict raises or does not return one score for a
\* result, search returns every filtered result of hybrid_search, in the fused
\* order, each with the rerank score 1/2.
C22_RerankFailureIsNeutral ==
    call.op = "search" /\ call.done /\ call.predict.kind \in {"raise", "mismatch"} =>
        LET kept == FilterResults(call.results, call.request) IN
        /\ Len(call.out) = Len(kept)
        /\ \A i \in DOMAIN call.out :
               /\ call.out[i].doc_id = kept[i].id
               /\ call.out[i].score = kept[i].score
               /\ RatEq(call.out[i].cross_score, Rat(1, 2))

\* The cross-encoder raised on MAX_RESULTS results that were all returned
C22_Witness ==
    /\ call.op = "search" /\ call.done /\ call.predict.kind = "raise"
    /\ Len(call.out) = MAX_RESULTS
    /\ call.predict.scores[1] < call.predict.scores[MAX_RESULTS]

\* ------------------------------------------------------------------ C23
\* C23: when cross_encoder.predict returns one score for a result, the list
\* search returns is in descending order of rerank score and holds each
\* filtered result of hybrid_search once, up to MAX_RESULTS of them.
C23_RerankedBestFirst ==
    call.op = "search" /\ call.done /\ call.predict.kind = "scores" =>
        LET kept == FilterResults(call.results, call.request) IN
        /\ \A i, j \in DOMAIN call.out :
               i < j => ~RatLess(call.out[i].cross_score, call.out[j].cross_score)
        /\ Len(call.out) = Min({MAX_RESULTS, Len(kept)})
        /\ \A i, j \in DOMAIN call.out : call.out[i].doc_id = call.out[j].doc_id => i = j
        /\ \A i \in DOMAIN call.out :
               \E k \in DOMAIN kept :
                   /\ kept[k].id = call.out[i].doc_id
                   /\ call.out[i].score = kept[k].score
                   /\ RatEq(call.out[i].cross_score, Sigmoid(call.predict.scores[k]))

\* The cross-encoder put the last of MAX_RESULTS fused results first
C23_Witness ==
    /\ call.op = "search" /\ call.done /\ call.predict.kind = "scores"
    /\ Len(call.out) = MAX_RESULTS
    /\ call.out[1].doc_id = MAX_RESULTS
    /\ RatLess(call.out[MAX_RESULTS].cross_score, call.out[1].cross_score)

\* ------------------------------------------------------------------ C24
\* C24: the wrapper of retryable(attempts=n), n at least 1, never calls the
\* function more than n times; every call before the last one failed; it
\* returns when a call succeeds, without another call; it raises when the n-th
\* call failed; and while it has neither returned nor raised, fewer than n
\* calls were made (another call follows).
C24_RetryAtMostNTimes ==
    call.op = "retry" /\ call.attempts >= 1 =>
        /\ call.calls <= call.attempts
        /\ \A k \in 1..(call.calls - 1) : call.outcomes[k] = "fail"
        /\ call.result = "returned" => call.outcomes[call.calls] = "ok"
        /\ call.result = "raised" =>
               call.calls = call.attempts /\ call.outcomes[call.calls] = "fail"
        /\ call.result = "pending" =>
               /\ call.calls < call.attempts
               /\ call.calls >= 1 => call.outcomes[call.calls] = "fail"
        /\ call.result # "none"

\* The wrapper returned the result of its last allowed call, after failures
C24_Witness ==
    /\ call.op = "retry" /\ call.result = "returned"
    /\ call.attempts = MaxAttempts /\ call.calls = MaxAttempts

\* ------------------------------------------------------------------ C25
\* C25: after a build of the BM25 index, and after a build followed by an
\* extend, tokenized_corpus[i] is the tokenization of documents[i] at every
\* position i.
C25_CorpusPositionsMatchDocuments ==
    call.op = "bm25" /\ call.done =>
        \A e \in {call.full, call.incremental} :
            /\ Len(e.tokenized_corpus) = Len(e.documents)
            /\ \A i \in DOMAIN e.documents : e.tokenized_corpus[i] = Tokenize(e.documents[i])

\* ------------------------------------------------------------------ C26
\* C26: when a cycle that was not forced has loaded the documents and found no
\* new id, and the search engine is initialized over valid indexes, the cycle
\* goes to the validation without calling SearchEngine.initialize, the
\* validation passes, and the corpus, the BM25 file and the collection are
\* those from before; nothing is fetched, built or created.
C26_NoNewIdsNoIndexUpdate ==
    \A w \in Workers :
        /\ workers[w].pc = "index" /\ ~workers[w].force
        /\ dm.new_document_ids = {} /\ se.is_initialized
        /\ validate_state(G, Env("none")).ret = "true"
        => \A fault \in IndexFaults :
               LET i == ri_index(G, workers[w].force, Env(fault))
                   v == ri_validate(i, Env("none"))
               IN  /\ i.ret = "validate" /\ v.ret = "done"
                   /\ \A g \in {i, v} :
                          /\ g.se.tokenized_corpus = se.tokenized_corpus
                          /\ g.se.documents = se.documents
                          /\ g.disk.chroma = disk.chroma
                          /\ g.disk.bm25_file = disk.bm25_file
                          /\ g.calls = {}

\* A cycle that was not forced found no new id over a valid, initialized engine
C26_Witness ==
    \E w \in Workers :
        /\ workers[w].pc = "index" /\ ~workers[w].force
        /\ dm.new_document_ids = {} /\ se.is_initialized
        /\ validate_state(G, Env("none")).ret = "true"
        /\ remote \ dm.indexed_document_ids = {}

\* ---------------------------------------------------------------- C27
\* What setup_chroma_collection finds: no collection or an empty one while
\* documents are loaded, or a collection with entries
CollectionMissingOrEmpty(g) ==
    ~g.disk.chroma.exists \/ (g.disk.chroma.ids = {} /\ g.dm.documents # <<>>)

CollectionPresent(g) == g.disk.chroma.exists /\ g.disk.chroma.ids # {}

\* setup_chroma_collection under the chroma faults of ChromaFaults: a missing
\* or empty collection is created and, when the call returns, holds all the
\* documents; a present, non-empty one without force loses no entry and, when
\* the call returns, has got only the new documents and was not created anew
SetupChromaFrame(ChromaFaults) ==
    \A force_update \in BOOLEAN, fault \in ChromaFaults :
        LET r == setup_chroma_collection(G, force_update, Env(fault))
            returned == r.ret = "coll" /\ ~r.exc
        IN  dm.is_initialized
            => /\ CollectionMissingOrEmpty(G) /\ returned
                  => /\ "create_collection" \in r.calls
                     /\ r.disk.chroma.ids = Ids(r.dm.documents)
               /\ CollectionPresent(G) /\ ~force_update
                  => /\ disk.chroma.ids \subseteq r.disk.chroma.ids
                     /\ returned
                        => /\ "create_collection" \notin r.calls
                           /\ r.disk.chroma.ids
                                  = disk.chroma.ids
                                    \cup (dm.new_document_ids \cap Ids(dm.documents))

\* C27: setup_chroma_collection (re)creates a missing or empty collection and
\* upserts all documents into it; into a present, non-empty collection,
\* without force, it upserts only the documents of new_document_ids and
\* removes no entry -- whatever chroma answers.
C27_SetupChromaIncremental == SetupChromaFrame(Faults)

\* The same when no chroma call raises
C27_SetupChromaIncrementalNoFault == SetupChromaFrame({"none", "api", "models"})

\* ------------------------------------------------------------------ C28
RECURSIVE Flatten(_)
Flatten(batches) ==
    IF batches = <<>> THEN <<>> ELSE Head(batches) \o Flatten(Tail(batches))

\* C28: a call of _add_documents_to_chroma that returns has called
\* collection.upsert with batches of at least one and at most batch_size
\* documents which, one after the other, are the given documents in their
\* order, each once: ceil(n / batch_size) calls for n documents, none for no
\* document.
C28_BatchedUpsertInOrder ==
    call.op = "upsert" /\ call.done /\ ~call.once.exc =>
        LET batches == call.once.batches
            n == Len(call.documents)
        IN  /\ Flatten(batches) = call.documents
            /\ \A b \in DOMAIN batches :
                   Len(batches[b]) >= 1 /\ Len(batches[b]) <= batch_size
            /\ Len(batches) = (n + batch_size - 1) \div batch_size
            /\ n = 0 => batches = <<>>

\* More documents than one batch holds were upserted: a full batch, then the rest
C28_Witness ==
    /\ call.op = "upsert" /\ call.done /\ ~call.once.exc
    /\ Len(call.documents) > batch_size
    /\ Len(call.documents) % batch_size # 0
    /\ Len(call.once.batches) = 2

\* ------------------------------------------------------------------ C29
\* C29: the lexical candidates keyword_search returns are documents of
\* positive score with their scores, each once, at most top_k of them, the
\* higher score first; a document of score zero or less is not among them, and
\* a document of positive score is left out only when top_k documents of at
\* least its score come before it.
C29_LexicalCandidatesPositive ==
    call.op = "keyword" /\ call.done =>
        LET out == call.out
        IN  /\ Len(out) <= call.top_k
            /\ \A i \in DOMAIN out :
                   /\ out[i].id \in DOMAIN call.scores
                   /\ out[i].score = call.scores[out[i].id]
                   /\ out[i].score > 0
            /\ \A i, j \in DOMAIN out :
                   /\ out[i].id = out[j].id => i = j
                   /\ i <= j => out[i].score >= out[j].score
            /\ \A d \in DOMAIN call.scores :
                   /\ call.scores[d] <= 0 => d \notin ResultIds(out)
                   /\ call.scores[d] > 0 /\ d \notin ResultIds(out)
                      => Cardinality({e \in DOMAIN call.scores :
                                         call.scores[e] >= call.scores[d] /\ e # d})
                             >= call.top_k

\* A document of score zero or less was ranked with documents of positive
\* score, and top_k cut one of positive score off
C29_Witness ==
    /\ call.op = "keyword" /\ call.done
    /\ \E a, b, c \in DOMAIN call.scores :
           /\ call.scores[a] > 0 /\ a \in ResultIds(call.out)
           /\ call.scores[b] <= 0
           /\ call.scores[c] > 0 /\ c \notin ResultIds(call.out)

\* ------------------------------------------------------------------ C30
\* C30: in the fusion of hybrid_search every normalized lexical score lies
\* between 0 and 1, and is 0 for every result when the highest raw score is 0;
\* the similarity of a semantic result is 1 - distance when the distance is at
\* most 1 and 0 otherwise; and with distances that are not negative no fused
\* score is negative.
C30_ScoresNotNegative ==
    call.op = "fuse" /\ call.done =>
        LET k == NormalizedKeyword(call.keyword_results)
            s == call.semantic_results
        IN  /\ \A i \in DOMAIN k :
                   ~RatLess(k[i].score, Rat(0, 1)) /\ ~RatLess(Rat(1, 1), k[i].score)
            /\ \A zeros \in ResultLists({0}) :
                   \A i \in DOMAIN zeros :
                       RatEq(NormalizedKeyword(zeros)[i].score, Rat(0, 1))
            /\ \A i \in DOMAIN s :
                   /\ ~RatLess(s[i].score, Rat(0, 1))
                   /\ IF ~RatLess(Rat(1, 1), s[i].score)
                      THEN RatEq(RatPlus(Similarity(s[i].score), s[i].score), Rat(1, 1))
                      ELSE RatEq(Similarity(s[i].score), Rat(0, 1))
            /\ call.out # "raised" =>
                   \A i \in DOMAIN call.out : ~RatLess(call.out[i].score, Rat(0, 1))

\* A document further than distance 1 was fused with a document of both
\* lists, and both are in the result
C30_Witness ==
    /\ call.op = "fuse" /\ call.done /\ call.out # "raised"
    /\ \E i \in DOMAIN call.semantic_results, j \in DOMAIN call.out :
           /\ RatLess(Rat(1, 1), call.semantic_results[i].score)
           /\ call.out[j].id = call.semantic_results[i].id
           /\ RatEq(call.out[j].score, Rat(0, 1))
    /\ \E j \in DOMAIN call.out :
           /\ call.out[j].id \in ResultIds(call.keyword_results)
                                 \cap ResultIds(call.semantic_results)
           /\ RatLess(Rat(0, 1), call.out[j].score)

\* ------------------------------------------------------------------ C31
\* No sentence of the content of the call holds a term of its query
NoTermMatches ==
    \A i \in DOMAIN SentenceScores(call.query, call.content) :
        SentenceScores(call.query, call.content)[i].score = 0

\* s without the full stops and blanks at its end
RECURSIVE TrimEnd(_)
TrimEnd(s) ==
    IF s # <<>> /\ s[Len(s)] \in {".", " "} THEN TrimEnd(SubSeq(s, 1, Len(s) - 1))
    ELSE s

\* out is a beginning of the content, but for blanks at its start and for the
\* full stops and blanks at its end
PlainPrefix(out, content) ==
    \E k \in 0..Len(content) :
        TrimEnd(out) \in {TrimEnd(SubSeq(content, 1, k)),
                          TrimEnd(Strip(SubSeq(content, 1, k)))}

RECURSIVE JoinSentences(_, _)
JoinSentences(sentence_scores, order) ==
    IF order = <<>> THEN <<>>
    ELSE sentence_scores[Head(order)].sentence \o <<".", " ">>
         \o JoinSentences(sentence_scores, Tail(order))

\* out is made of one or more sentences of the content, each once, a sentence
\* of more query terms before one of fewer
SentencesBestFirst(out, sentence_scores) ==
    \E m \in 1..Len(sentence_scores) :
        \E order \in [1..m -> DOMAIN sentence_scores] :
            /\ \A i, j \in 1..m : i < j =>
                   /\ order[i] # order[j]
                   /\ sentence_scores[order[i]].score >= sentence_scores[order[j]].score
            /\ out = Strip(JoinSentences(sentence_scores, order))

\* C31: when the tokenizer works, create_snippet returns a beginning of the
\* content if no sentence of the content holds a query term; otherwise it
\* returns sentences of the content joined, a sentence of more query terms
\* before one of fewer.
C31_SnippetPrefixOrBestSentences ==
    call.op = "snippet" /\ call.done /\ call.content # <<>> /\ ~call.tokenizer_raises
        => IF NoTermMatches
           THEN PlainPrefix(call.out, call.content)
           ELSE SentencesBestFirst(call.out, SentenceScores(call.query, call.content))

\* ------------------------------------------------------------------ C32
\* C32: the snippet create_snippet returns is never longer than max_len.
C32_SnippetWithinMaxLen ==
    call.op = "snippet" /\ call.done => Len(call.out) <= call.max_len

\* ------------------------------------------------------------------ C33
NoDuplicateIds(documents) ==
    \A i, j \in DOMAIN documents : documents[i] = documents[j] => i = j

\* C33: the document list of the data manager, the list of the search engine
\* and the list saved in DOCUMENTS_FILE never hold a document ID twice.
C33_NoDuplicateDocuments ==
    /\ NoDuplicateIds(dm.documents)
    /\ NoDuplicateIds(se.documents)
    /\ NoDuplicateIds(disk.documents_file.docs)

\* ------------------------------------------------------------------ C34
\* What a cycle with check_new that adds no document leaves, with the faults
\* of CheckFaults: no new document IDs and, the search engine being set up,
\* an index step that goes to validation with the corpus and the collection
\* as they were
CheckWithoutNewDocuments(CheckFaults) ==
    disk.documents_file.exists /\ ~indexing_status.running =>
        \A fault \in CheckFaults :
            LET l == ri_load(G, FALSE, TRUE, Env(fault))
                i == ri_index(l, FALSE, Env("none"))
            IN  ~l.exc /\ l.dm.documents = disk.documents_file.docs
                => /\ l.dm.new_document_ids = {}
                   /\ se.is_initialized
                      => /\ i.ret = "validate"
                         /\ i.se.tokenized_corpus = se.tokenized_corpus
                         /\ i.disk.chroma = disk.chroma

\* C34: a cycle whose load_documents(check_new=True) adds no document -- the
\* remote has nothing new, or the fetch fails -- leaves new_document_ids
\* empty, and its index step extends neither the lexical corpus nor the vector
\* collection.
C34_NoNewDocumentsNoStaleIds == CheckWithoutNewDocuments({"none", "api"})

\* The same when the fetch succeeds
C34_NothingNewAtRemote == CheckWithoutNewDocuments({"none"})

\* ------------------------------------------------------------------ C35
\* What validate_state asks of the engine: documents, a corpus entry for each,
\* a collection with entries
EngineValid ==
    /\ se.is_initialized
    /\ se.documents # <<>>
    /\ se.tokenized_corpus # <<>> /\ Len(se.tokenized_corpus) = Len(se.documents)
    /\ se.collection /\ disk.chroma.exists /\ disk.chroma.ids # {}

\* C35: when a run_indexing call returns with indexing_status.up_to_date set,
\* the search engine is one that passes validation: documents loaded, as many
\* corpus entries as documents, a collection with entries; a cycle whose
\* rebuild failed does not set up_to_date.
C35_UpToDateOnlyWhenValidated ==
    CycleEnded /\ resp.status = "done" =>
        /\ indexing_status.up_to_date => EngineValid
        /\ indexing_status.message = "Failed to rebuild index"
               => ~indexing_status.up_to_date

\* ------------------------------------------------------------------ C36
\* A readiness flag is set in state g
ReadinessFlagSet(g) == g.se.is_initialized \/ g.sys.index_ready \/ g.sys.bm25_ready

\* C36: after the validate_state call of a cycle, and after the forced
\* rebuild that follows a failed one, search_engine.is_initialized,
\* system_status.index_ready and system_status.bm25_ready are set only if the
\* last validate_state call succeeded.
C36_ReadyOnlyAfterValidation ==
    AtValidation /\ se.is_initialized =>
        \A f1 \in ValidateFaults :
            LET v == validate_state(G, Env(f1)) IN
            /\ ReadinessFlagSet(v) => v.ret = "true"
            /\ v.ret = "false" =>
                   \A f2 \in Faults :
                       LET r == ForcedRebuild(v, f2) IN
                       ReadinessFlagSet(r) => r.ret = "true"

\* ------------------------------------------------------------------ C37
\* C37: whichever path hybrid_search takes in a state the program reaches --
\* the fusion, the semantic-only or the lexical-only fallback -- no result it
\* returns carries a raw score (a vector distance or an unnormalized BM25
\* score): each score is a weighted normalized similarity.
C37_NoRawScores ==
    \A query \in Queries, fault \in Faults :
        \A r \in hybrid_search(G, query, Env(fault)).results : ~r.raw

\* The same for the requests POST /search serves, behind get_search_engine
C37_ServedResultsNotRaw ==
    ~FgBusy =>
        \A query \in Queries, fault \in SearchFaults :
            \A r \in search_documents(G, query, Env(fault)).results : ~r.raw

\* ------------------------------------------------------------------ C38
\* What a request that left state o wrote to the index structures: it built
\* or rebuilt the BM25 index, created the vector collection anew, or left a
\* BM25 file or a collection other than those it found
WroteIndexes(o) ==
    \/ "build_bm25" \in o.calls
    \/ "create_collection" \in o.calls
    \/ o.disk.bm25_file # disk.bm25_file
    \/ o.disk.chroma # disk.chroma

\* A run_indexing call executes and has set the running flag
CycleRunning == Executing # {} /\ indexing_status.running

\* C38: while an indexing cycle is running, a search request -- its on-demand
\* initialization and the BM25 and Chroma recovery of hybrid_search included --
\* neither rebuilds, extends nor re-creates the BM25 index or the vector
\* collection: only the cycle that holds the running flag writes them.
C38_SearchWritesNoIndexWhileCycleRuns ==
    CycleRunning /\ ~FgBusy =>
        \A query \in Queries, fault \in SearchFaults :
            ~WroteIndexes(search_documents(G, query, Env(fault)).g)

====
